---- MODULE Spec2Model ----
(***************************************************************************)
(* A model of the DAWG package (dawg.go, disk.go, bits.go): the Builder    *)
(* that minimizes a sorted stream of words, the bit-packed image written   *)
(* by Write, and the Finder that answers queries in place over the image.  *)
(*                                                                         *)
(* Words are sequences of characters; a character is its code point.  All  *)
(* characters of the model are below 128, so a word's runes are its bytes  *)
(* and Go's string comparison is the lexicographic order on code points.   *)
(***************************************************************************)
EXTENDS Integers, Sequences, FiniteSets, TLC

(***************************************************************************)
(* Bounds of the model.                                                    *)
(***************************************************************************)
MaxLen == 2

MaxWords == 3

MaxThreads == 2

MaxQueriedWords == 2

MaxWrites == 3

MaxItems == 3

MaxD == 2

MaxHash == 2

MaxSmall == 100

Chars == {0, 1}

RECURSIVE StringsOfLen(_)
StringsOfLen(n) ==
    IF n = 0 THEN {<<>>}
    ELSE {Append(s, c) : s \in StringsOfLen(n - 1), c \in Chars}

Strings == UNION {StringsOfLen(n) : n \in 0..MaxLen}

(***************************************************************************)
(* Named values of the program.                                            *)
(***************************************************************************)
rootNode == 0

Continue == 0

Skip == 1

Stop == 2

(***************************************************************************)
(* Go's built-in operations used by the code.                              *)
(***************************************************************************)
\* 1 << n
Pow2(n) == 2 ^ n

\* math/bits.Len: the number of bits needed to represent x
RECURSIVE BitsLen(_)
BitsLen(x) == IF x = 0 THEN 0 ELSE 1 + BitsLen(x \div 2)

\* Go map read: the zero value when the key is absent
MapGet(m, k, zero) == IF k \in DOMAIN m THEN m[k] ELSE zero

MapPut(m, k, v) == (k :> v) @@ m

MapDelete(m, k) == [x \in (DOMAIN m) \ {k} |-> m[x]] @@ <<>>

EmptyMap == <<>>

\* a < b for Go strings (bytewise lexicographic order)
RECURSIVE StrLess(_, _)
StrLess(a, b) ==
    IF b = <<>> THEN FALSE
    ELSE IF a = <<>> THEN TRUE
    ELSE IF Head(a) # Head(b) THEN Head(a) < Head(b)
    ELSE StrLess(Tail(a), Tail(b))

StrLeq(a, b) == a = b \/ StrLess(a, b)

\* strconv.Itoa for n >= 0, as code points of the decimal digits
RECURSIVE Itoa(_)
Itoa(n) ==
    IF n < 10 THEN <<48 + n>>
    ELSE Append(Itoa(n \div 10), 48 + (n % 10))

min(a, b) == IF a < b THEN a ELSE b

(***************************************************************************)
(* The dawg struct.  A nil io.ReaderAt is [open |-> FALSE]; an open one    *)
(* holds the bytes it reads.  Nil maps and slices are empty.               *)
(***************************************************************************)
NilReader == [open |-> FALSE, data |-> <<>>]

BytesReader(b) == [open |-> TRUE, data |-> b]

ZeroDawg ==
    [lastWord |-> <<>>, nextID |-> 0, uncheckedNodes |-> <<>>,
     minimizedNodes |-> EmptyMap, names |-> EmptyMap,
     r |-> NilReader, size |-> 0,
     finished |-> FALSE, numAdded |-> 0, numNodes |-> 0, numEdges |-> 0,
     cbits |-> 0, abits |-> 0, wbits |-> 0, firstNodeOffset |-> 0,
     edges |-> EmptyMap, final |-> EmptyMap, hasEmptyWord |-> FALSE]

New == [ZeroDawg EXCEPT !.nextID = 1]

edgeStart(node, ch) == [node |-> node, ch |-> ch]

edgeEnd(node, count) == [node |-> node, count |-> count]

ZeroEdgeEnd == edgeEnd(0, 0)

(***************************************************************************)
(* Builder helpers (dawg.go).                                              *)
(***************************************************************************)
isFinal(d, node) == MapGet(d.final, node, FALSE)

namesOf(d, node) == MapGet(d.names, node, <<>>)

RECURSIVE nameEdges(_)
nameEdges(es) ==
    IF es = <<>> THEN <<>>
    ELSE <<95, Head(es).ch, 58>> \o Itoa(Head(es).node) \o nameEdges(Tail(es))

nameOf(d, node) ==
    nameEdges(namesOf(d, node)) \o (IF isFinal(d, node) THEN <<33>> ELSE <<>>)

setFinal(d, node) ==
    [d EXCEPT !.final = MapPut(d.final, node, TRUE),
              !.hasEmptyWord = IF node = rootNode THEN TRUE ELSE d.hasEmptyWord]

addChild(d, parent, ch, child) ==
    [d EXCEPT !.names = MapPut(d.names, parent,
                               Append(namesOf(d, parent), edgeStart(child, ch))),
              !.edges = MapPut(d.edges, edgeStart(parent, ch), edgeEnd(child, 0))]

\* the first entry of a names list with character ch gets the new target
RECURSIVE replaceName(_, _, _)
replaceName(name, ch, child) ==
    IF name = <<>> THEN <<>>
    ELSE IF Head(name).ch = ch THEN <<edgeStart(child, ch)>> \o Tail(name)
    ELSE <<Head(name)>> \o replaceName(Tail(name), ch, child)

\* the child and its edges stay where they are
replaceChildKept(d, parent, ch, child) == d

replaceChild(d, parent, ch, child) ==
    LET start == edgeStart(parent, ch)
        oldChild == MapGet(d.edges, start, ZeroEdgeEnd).node
        oldLinks == {edgeStart(oldChild, namesOf(d, oldChild)[i].ch) :
                        i \in 1..Len(namesOf(d, oldChild))}
        edges1 == [x \in (DOMAIN d.edges) \ oldLinks |-> d.edges[x]]
        names1 == MapDelete(d.names, oldChild)
        final1 == MapDelete(d.final, oldChild)
        names2 == IF parent \in DOMAIN names1
                  THEN MapPut(names1, parent, replaceName(names1[parent], ch, child))
                  ELSE names1
    IN  [d EXCEPT !.names = names2, !.final = final1,
                  !.edges = MapPut(edges1, start, edgeEnd(child, 0))]

\* the loop of minimize, i counting down (1-based position i is Go's i - 1)
RECURSIVE minimizeLoop(_, _, _)
\* the loop without the lookup in the index: it registers every child
minimizeLoopRegisterAll(d, i, downTo) ==
    IF i <= downTo THEN d
    ELSE minimizeLoop([d EXCEPT !.minimizedNodes =
                           MapPut(d.minimizedNodes, nameOf(d, d.uncheckedNodes[i].child),
                                  d.uncheckedNodes[i].child)],
                      i - 1, downTo)

minimizeLoop(d, i, downTo) ==
    IF i <= downTo THEN d
    ELSE LET u == d.uncheckedNodes[i]
             name == nameOf(d, u.child)
             d1 == IF name \in DOMAIN d.minimizedNodes
                   THEN replaceChild(d, u.parent, u.ch, d.minimizedNodes[name])
                   ELSE [d EXCEPT !.minimizedNodes = MapPut(d.minimizedNodes, name, u.child)]
         IN  minimizeLoop(d1, i - 1, downTo)

\* the stack left as long as it was
minimizeUntruncated(d, downTo) == minimizeLoop(d, Len(d.uncheckedNodes), downTo)

minimize(d, downTo) ==
    LET truncate(d1) == [d1 EXCEPT !.uncheckedNodes = SubSeq(d1.uncheckedNodes, 1, downTo)]
    IN  truncate(minimizeLoop(d, Len(d.uncheckedNodes), downTo))

(***************************************************************************)
(* CanAdd and Add (dawg.go).                                               *)
(***************************************************************************)
CanAdd(d, word) ==
    ~d.finished /\ (d.numAdded = 0 \/ StrLess(d.lastWord, word))

RECURSIVE commonPrefixFrom(_, _, _)
commonPrefixFrom(word, lastWord, i) ==
    IF i < min(Len(word), Len(lastWord)) /\ word[i + 1] = lastWord[i + 1]
    THEN commonPrefixFrom(word, lastWord, i + 1)
    ELSE i

\* the loop that appends one fresh node per remaining letter; returns the
\* builder and the last node
RECURSIVE addSuffix(_, _, _, _)
addSuffix(d, node, word, k) ==
    IF k > Len(word) THEN [d |-> d, node |-> node]
    ELSE LET nextNode == d.nextID
             d1 == [d EXCEPT !.nextID = d.nextID + 1]
             d2 == addChild(d1, node, word[k], nextNode)
             d3 == [d2 EXCEPT !.uncheckedNodes =
                        Append(d2.uncheckedNodes,
                               [parent |-> node, ch |-> word[k], child |-> nextNode])]
         IN  addSuffix(d3, nextNode, word, k + 1)

\* Add's checks with < in place of <=
AddPanicStrict(d, wordIn) ==
    IF d.numAdded > 0 /\ StrLess(wordIn, d.lastWord)
    THEN "d.AddWord(): Words not in alphabetical order"
    ELSE IF d.finished THEN "d.AddWord(): Tried to add to a finished dawg"
    ELSE ""

\* which panic Add raises, "" when it raises none
AddPanic(d, wordIn) ==
    IF d.numAdded > 0 /\ StrLeq(wordIn, d.lastWord)
    THEN "d.AddWord(): Words not in alphabetical order"
    ELSE IF d.finished THEN "d.AddWord(): Tried to add to a finished dawg"
    ELSE ""

\* the body of Add after its checks
Add(d, word) ==
    LET commonPrefix == commonPrefixFrom(word, d.lastWord, 0)
        counted(d2) == [d2 EXCEPT !.lastWord = word, !.numAdded = d2.numAdded + 1]
        finalized(s) == counted(setFinal(s.d, s.node))
        suffix(d1) ==
            finalized(addSuffix(d1,
                                IF Len(d1.uncheckedNodes) = 0 THEN rootNode
                                ELSE d1.uncheckedNodes[Len(d1.uncheckedNodes)].child,
                                word, commonPrefix + 1))
    IN  suffix(minimize(d, commonPrefix))

(***************************************************************************)
(* Bit I/O (bits.go).  A bitWriter is its sink, its cache byte and the     *)
(* number of cache bits in use; a bitSeeker is its bit position and its    *)
(* one-byte buffer.                                                        *)
(***************************************************************************)
newBitWriter == [out |-> <<>>, cache |-> 0, used |-> 0]

RECURSIVE WriteBits(_, _, _)
WriteBits(w, data, n) ==
    IF n <= 0 THEN w
    ELSE LET written == IF n + w.used > 8 THEN 8 - w.used ELSE n
             mask == Pow2(written) - 1
             used1 == w.used + written
             cache1 == ((w.cache * Pow2(written)) % 256)
                       + (((data \div Pow2(n - written)) % 256) % (mask + 1))
             w1 == IF used1 = 8
                   THEN [out |-> Append(w.out, cache1), cache |-> cache1, used |-> 0]
                   ELSE [out |-> w.out, cache |-> cache1, used |-> used1]
         IN  WriteBits(w1, data, n - written)

\* Flush that writes the cache as it is
FlushUnshifted(w) ==
    IF w.used > 0 THEN [w EXCEPT !.out = Append(w.out, w.cache)] ELSE w

\* Flush that drops the bits of the last, partly filled byte
FlushDropped(w) == w

Flush(w) ==
    IF w.used > 0
    THEN [w EXCEPT !.out = Append(w.out, (w.cache * Pow2(8 - w.used)) % 256)]
    ELSE w

\* maskTop[k]: the low 8 - k bits
maskTop(k) == Pow2(8 - k) - 1

newBitSeeker == [p |-> 0, buffer |-> 0]

\* ReadAt of one byte at p >> 3: past the end of the source it fails and
\* the buffer keeps the byte of the previous read
nextByte(src, r) ==
    IF (r.p \div 8) >= 0 /\ (r.p \div 8) < Len(src) THEN src[(r.p \div 8) + 1]
    ELSE r.buffer

\* the bytes ReadBits fetches while n >= 8; acc is [result, r, n]
RECURSIVE readWholeBytes(_, _)
readWholeBytes(src, acc) ==
    IF acc.n < 8 THEN acc
    ELSE LET fetched(b) == [result |-> acc.result * 256 + b,
                            r |-> [p |-> acc.r.p + 8, buffer |-> b],
                            n |-> acc.n - 8]
         IN  readWholeBytes(src, fetched(nextByte(src, acc.r)))

\* returns the value read and the seeker after the read
ReadBits(src, r, n) ==
    LET within(b) ==
            [v |-> (b % (maskTop(r.p % 8) + 1)) \div Pow2(8 - (r.p % 8) - n),
             r |-> [p |-> r.p + n, buffer |-> b]]
        first(b0) ==
            [result |-> b0 % (maskTop(r.p % 8) + 1),
             r |-> [p |-> r.p + (8 - (r.p % 8)), buffer |-> b0],
             n |-> n - (8 - (r.p % 8))]
        last(a1, b2) ==
            [v |-> a1.result * Pow2(a1.n) + (b2 \div Pow2(8 - a1.n)),
             r |-> [p |-> a1.r.p + a1.n, buffer |-> b2]]
        rest(a1) ==
            IF a1.n > 0 THEN last(a1, nextByte(src, a1.r))
            ELSE [v |-> a1.result, r |-> a1.r]
    IN  IF (r.p % 8) + n <= 8 THEN within(nextByte(src, r))
        ELSE rest(readWholeBytes(src, first(nextByte(src, r))))

Seek(r, offset) == [r EXCEPT !.p = offset]

Tell(r) == r.p

\* the bit reader that caches 64-bit words: have is the word in the cache
newWordSeeker == [p |-> 0, have |-> -1, buffer |-> <<0, 0, 0, 0, 0, 0, 0, 0>>]

\* nextWord: ReadAt of the eight bytes of the word that holds bit at; the
\* bytes behind the end of the source keep what the buffer held
nextWord(src, r, at) ==
    IF at \div 64 # r.have
    THEN [r EXCEPT !.have = at \div 64,
                   !.buffer = [i \in 1..8 |->
                                  IF (at \div 64) * 8 + i <= Len(src)
                                  THEN src[(at \div 64) * 8 + i] ELSE r.buffer[i]]]
    ELSE r

\* (cache & maskTop[from]) >> (64 - from - count): the count bits of the
\* cached word from bit from, the first bit being the highest
RECURSIVE wordBits(_, _, _)
wordBits(buffer, from, count) ==
    IF count = 0 THEN 0
    ELSE wordBits(buffer, from, count - 1) * 2
         + ((buffer[((from + count - 1) \div 8) + 1]
                \div Pow2(7 - ((from + count - 1) % 8))) % 2)

\* ReadBits of the reader that caches words
ReadBitsWord(src, r, n) ==
    LET within(r1) == [v |-> wordBits(r1.buffer, r.p % 64, n), r |-> [r1 EXCEPT !.p = r.p + n]]
        last(result, r3, n2) ==
            [v |-> result * Pow2(n2) + wordBits(r3.buffer, 0, n2), r |-> r3]
        rest(result, r2, n2) ==
            IF n2 > 0 THEN last(result, nextWord(src, [r2 EXCEPT !.p = r2.p + n2], r2.p + n2), n2)
            ELSE [v |-> result, r |-> r2]
        first(r1) ==
            rest(wordBits(r1.buffer, r.p % 64, 64 - (r.p % 64)),
                 [r1 EXCEPT !.p = r.p + (64 - (r.p % 64))], n - (64 - (r.p % 64)))
    IN  IF (r.p % 64) + n <= 64 THEN within(nextWord(src, r, r.p))
        ELSE first(nextWord(src, r, r.p))

(***************************************************************************)
(* The 7-bit varint codec (disk.go).  Values of 0x1fffff and above panic;  *)
(* the model's counts stay far below.                                      *)
(***************************************************************************)
writeUnsigned(w, n) ==
    IF n < 127 THEN WriteBits(w, n, 8)
    ELSE IF n < 16383
    THEN WriteBits(WriteBits(w, ((n \div 128) % 128) + 128, 8), n % 128, 8)
    ELSE WriteBits(WriteBits(WriteBits(w, ((n \div 16384) % 128) + 128, 8),
                             ((n \div 128) % 128) + 128, 8), n % 128, 8)

unsignedLength(n) == IF n < 127 THEN 1 ELSE IF n < 16383 THEN 2 ELSE 3

\* the panic of writeUnsigned and of unsignedLength, "" when there is none
writeUnsignedPanic(n) == IF n < 2097151 THEN "" ELSE "Not implemented"

\* the codec of dawg-dict/disk.go, with a branch for four bytes
writeUnsigned4(w, n) ==
    IF n < 2097151 THEN writeUnsigned(w, n)
    ELSE WriteBits(WriteBits(WriteBits(WriteBits(w, ((n \div 2097152) % 128) + 128, 8),
                                       ((n \div 16384) % 128) + 128, 8),
                             ((n \div 128) % 128) + 128, 8), n % 128, 8)

unsignedLength4(n) == IF n < 2097151 THEN unsignedLength(n) ELSE 4

writeUnsigned4Panic(n) == IF n < 268435455 THEN "" ELSE "Not implemented"

RECURSIVE readUnsignedLoop(_, _, _)
readUnsignedLoop(src, r, result) ==
    LET next(x) ==
            IF x.v \div 128 = 0 THEN [v |-> result * 128 + (x.v % 128), r |-> x.r]
            ELSE readUnsignedLoop(src, x.r, result * 128 + (x.v % 128))
    IN  next(ReadBits(src, r, 8))

readUnsigned(src, r) == readUnsignedLoop(src, r, 0)

(***************************************************************************)
(* Finish's passes over the in-memory graph (dawg.go).                     *)
(***************************************************************************)
\* the count of the edge stays zero
setCountKept(d, node, ch, count) == d

setCount(d, node, ch, count) ==
    LET start == edgeStart(node, ch)
        end == MapGet(d.edges, start, ZeroEdgeEnd)
    IN  [d EXCEPT !.edges = MapPut(d.edges, start, edgeEnd(end.node, count))]

\* calculateSkipped returns the builder with the counts set, the cache and
\* the number of words reachable from node; skipLoop is its loop over the
\* node's edges, k the position of the next edge
RECURSIVE calculateSkipped(_, _, _)
RECURSIVE skipLoop(_, _, _, _, _, _)
\* skipLoop with the count set after the child's words are added
skipLoopAfter(d, cache, node, edges, k, numReachable) ==
    IF k > Len(edges)
    THEN [d |-> d, cache |-> MapPut(cache, node, numReachable), count |-> numReachable]
    ELSE LET c == calculateSkipped(d, cache, edges[k].node)
             d1 == setCount(c.d, node, edges[k].ch, numReachable + c.count)
         IN  skipLoop(d1, c.cache, node, edges, k + 1, numReachable + c.count)

skipLoop(d, cache, node, edges, k, numReachable) ==
    IF k > Len(edges)
    THEN [d |-> d, cache |-> MapPut(cache, node, numReachable), count |-> numReachable]
    ELSE LET d1 == setCount(d, node, edges[k].ch, numReachable)
             c == calculateSkipped(d1, cache, edges[k].node)
         IN  skipLoop(c.d, c.cache, node, edges, k + 1, numReachable + c.count)

calculateSkipped(d, cache, node) ==
    IF node \in DOMAIN cache
    THEN [d |-> d, cache |-> cache, count |-> cache[node]]
    ELSE skipLoop(d, cache, node, namesOf(d, node), 1,
                  IF isFinal(d, node) THEN 1 ELSE 0)

\* one iteration of renumber's first loop, for the edge start
remapStep(d, remap, start) ==
    LET r1 == IF start.node \in DOMAIN remap THEN remap
              ELSE MapPut(remap, start.node, Cardinality(DOMAIN remap))
        end == d.edges[start]
    IN  IF end.node \in DOMAIN r1 THEN r1
        ELSE MapPut(r1, end.node, Cardinality(DOMAIN r1))

\* The remaps renumber's first loop can end with.  Go ranges over d.edges
\* in an unspecified order; an edge met when both its nodes are numbered
\* changes nothing, so only the edges that still number a node branch.
RECURSIVE Remaps(_, _)
Remaps(d, remap) ==
    LET fresh == {e \in DOMAIN d.edges :
                     e.node \notin DOMAIN remap \/ d.edges[e].node \notin DOMAIN remap}
    IN  IF fresh = {} THEN {remap}
        ELSE UNION {Remaps(d, remapStep(d, remap, e)) : e \in fresh}

\* the rest of renumber, for the remap its first loop built
renumber(d, remap) ==
    LET to(n) == MapGet(remap, n, 0)
        starts == {edgeStart(to(e.node), e.ch) : e \in DOMAIN d.edges}
        src(x) == CHOOSE e \in DOMAIN d.edges : edgeStart(to(e.node), e.ch) = x
        edges == [x \in starts |-> edgeEnd(to(d.edges[src(x)].node), d.edges[src(x)].count)]
        final1 == [n \in {to(node) : node \in DOMAIN d.final} |->
                     \E node \in DOMAIN d.final : to(node) = n /\ d.final[node]]
    IN  [d EXCEPT !.edges = edges, !.final = final1]

(***************************************************************************)
(* The serializer (disk.go).                                               *)
(***************************************************************************)
\* the characters of a node from the largest down
edgeLessDescending(a, b) == IF a.node # b.node THEN a.node < b.node ELSE a.ch > b.ch

edgeLess(a, b) == IF a.node # b.node THEN a.node < b.node ELSE a.ch < b.ch

\* getEdges: the keys of d.edges sorted by node, then character
RECURSIVE sortEdges(_)
sortEdges(S) ==
    IF S = {} THEN <<>>
    ELSE LET m == CHOOSE a \in S : \A b \in S \ {a} : edgeLess(a, b)
         IN  <<m>> \o sortEdges(S \ {m})

getEdges(d) == sortEdges(DOMAIN d.edges)

\* nodes[i].edgeCount after Write's first loop
edgeCount(d, i) == Cardinality({e \in DOMAIN d.edges : e.node = i})

\* the bits one node's record takes in the layout pass
nodeBits(d, i, cbits, wbits, abits) ==
    2 + (IF edgeCount(d, i) # 1 THEN unsignedLength(edgeCount(d, i)) * 8 ELSE 0)
      + (IF edgeCount(d, i) > 0
         THEN edgeCount(d, i) * (cbits + wbits + abits) - wbits ELSE 0)

headerBits(d) ==
    32 + 8 + 8 + unsignedLength(d.numAdded) * 8 + unsignedLength(d.numNodes) * 8
       + unsignedLength(d.numEdges) * 8

\* pos before node i's record in the layout pass: nodes[i].address
RECURSIVE nodeAddress(_, _, _, _, _)
nodeAddress(d, i, cbits, wbits, abits) ==
    IF i = 0 THEN headerBits(d)
    ELSE nodeAddress(d, i - 1, cbits, wbits, abits)
         + nodeBits(d, i - 1, cbits, wbits, abits)

\* the loop left after its first pass
abitsLoopOnce(d, cbits, wbits, abits) ==
    LET pos == nodeAddress(d, d.numNodes, cbits, wbits, abits)
    IN  IF BitsLen(pos) <= abits THEN abits ELSE BitsLen(pos)

\* the address-width loop: the abits it stops with
RECURSIVE abitsLoop(_, _, _, _)
abitsLoop(d, cbits, wbits, abits) ==
    LET pos == nodeAddress(d, d.numNodes, cbits, wbits, abits)
    IN  IF BitsLen(pos) <= abits THEN abits
        ELSE abitsLoop(d, cbits, wbits, BitsLen(pos))

maxChar(d) ==
    IF DOMAIN d.edges = {} THEN 0
    ELSE LET m == CHOOSE a \in DOMAIN d.edges : \A b \in DOMAIN d.edges : b.ch <= a.ch
         IN  IF m.ch > 0 THEN m.ch ELSE 0

\* the header of node i's record in the emission pass
writeNodeHeader(d, w, i) ==
    LET count(w1) ==
            IF edgeCount(d, i) = 1 THEN WriteBits(w1, 1, 1)
            ELSE writeUnsigned(WriteBits(w1, 0, 1), edgeCount(d, i))
    IN  count(WriteBits(w, IF isFinal(d, i) THEN 1 ELSE 0, 1))

\* for i < start.node { i++; ... }: st is [w, i]
RECURSIVE writeHeadersUpTo(_, _, _)
writeHeadersUpTo(d, st, node) ==
    IF st.i >= node THEN st
    ELSE writeHeadersUpTo(d,
            [w |-> writeNodeHeader(d, st.w, st.i + 1), i |-> st.i + 1,
             firstEdge |-> TRUE], node)

\* the emission loop over the sorted edges; st is [w, i, firstEdge]
RECURSIVE writeEdges(_, _, _, _, _, _, _)
writeEdges(d, edges, k, st, cbits, wbits, abits) ==
    IF k > Len(edges) THEN st
    ELSE LET start == edges[k]
             end == IF d.numEdges = 0 THEN ZeroEdgeEnd
                    ELSE MapGet(d.edges, start, ZeroEdgeEnd)
             address(w2) ==
                 WriteBits(w2, nodeAddress(d, end.node, cbits, wbits, abits), abits)
             count(w1, firstEdge) ==
                 address(IF ~firstEdge THEN WriteBits(w1, end.count, wbits) ELSE w1)
             edge(s1) ==
                 [w |-> count(WriteBits(s1.w, start.ch, cbits), s1.firstEdge),
                  i |-> s1.i, firstEdge |-> FALSE]
         IN  writeEdges(d, edges, k + 1, edge(writeHeadersUpTo(d, st, start.node)),
                        cbits, wbits, abits)

\* the size rounded down
imageSizeFloor(pos) == pos \div 8

\* the image's size in bytes for its size in bits
imageSize(pos) == (pos + 7) \div 8

\* the record after the loop left out
writeBodyNoTrailing(d, cbits, wbits, abits) ==
    LET header(size) ==
            writeUnsigned(writeUnsigned(writeUnsigned(
                WriteBits(WriteBits(WriteBits(newBitWriter, size, 32), cbits, 8),
                          abits, 8),
                d.numAdded), d.numNodes), d.numEdges)
    IN  writeEdges(d, getEdges(d), 1,
                   [w |-> header(imageSize(nodeAddress(d, d.numNodes, cbits, wbits, abits))),
                    i |-> -1, firstEdge |-> FALSE],
                   cbits, wbits, abits).w

\* the bit writer of Write before its Flush: the header, the records the
\* loop over the edges emits and the record written after the loop
writeBody(d, cbits, wbits, abits) ==
    LET header(size) ==
            writeUnsigned(writeUnsigned(writeUnsigned(
                WriteBits(WriteBits(WriteBits(newBitWriter, size, 32), cbits, 8),
                          abits, 8),
                d.numAdded), d.numNodes), d.numEdges)
        trailing(s3) ==
            IF s3.i + 1 < d.numNodes
            THEN writeUnsigned(
                     WriteBits(WriteBits(s3.w, IF isFinal(d, s3.i + 1) THEN 1 ELSE 0, 1),
                               0, 1), 0)
            ELSE s3.w
    IN  trailing(writeEdges(d, getEdges(d), 1,
                            [w |-> header(imageSize(nodeAddress(d, d.numNodes, cbits, wbits,
                                                                abits))),
                             i |-> -1, firstEdge |-> FALSE],
                            cbits, wbits, abits))

\* Write of a finished in-memory graph: the bytes sent to the sink and the
\* returned size
serialize(d) ==
    LET image(cbits, wbits, abits) ==
            [out |-> Flush(writeBody(d, cbits, wbits, abits)).out,
             n |-> imageSize(nodeAddress(d, d.numNodes, cbits, wbits, abits)),
             err |-> ""]
    IN  image(BitsLen(maxChar(d)), BitsLen(d.numAdded),
              abitsLoop(d, BitsLen(maxChar(d)), BitsLen(d.numAdded), 1))

\* Write: the copy-through path when a reader is set, else the serializer
Write(d) ==
    IF d.r.open
    THEN [out |-> SubSeq(d.r.data, 1, min(d.size, Len(d.r.data))),
          n |-> min(d.size, Len(d.r.data)), err |-> ""]
    ELSE IF ~d.finished THEN [out |-> <<>>, n |-> 0, err |-> "dawg not finished"]
    ELSE serialize(d)

(***************************************************************************)
(* Read (disk.go): the Finder over a byte source.                          *)
(***************************************************************************)
\* io.NewSectionReader(f, offset, size): the bytes it can read
SectionReader(f, offset, size) == SubSeq(f, offset + 1, min(offset + size, Len(f)))

ReadPanics(f, offset) == offset + 4 > Len(f)

readUint32(f, at) ==
    f[at + 1] * 16777216 + f[at + 2] * 65536 + f[at + 3] * 256 + f[at + 4]

Read(f, offset) ==
    LET size == readUint32(f, offset)
        sec == SectionReader(f, offset, size)
        finderOf(cbits, abits, numAdded, numNodes, numEdges) ==
            [ZeroDawg EXCEPT !.finished = TRUE, !.numAdded = numAdded.v,
                             !.numNodes = numNodes.v, !.numEdges = numEdges.v,
                             !.abits = abits.v, !.cbits = cbits.v,
                             !.wbits = BitsLen(numAdded.v),
                             !.hasEmptyWord = ReadBits(sec, numEdges.r, 1).v = 1,
                             !.firstNodeOffset = Tell(numEdges.r),
                             !.r = BytesReader(f), !.size = size]
        edgesRead(cbits, abits, numAdded, numNodes) ==
            finderOf(cbits, abits, numAdded, numNodes, readUnsigned(sec, numNodes.r))
        nodesRead(cbits, abits, numAdded) ==
            edgesRead(cbits, abits, numAdded, readUnsigned(sec, numAdded.r))
        addedRead(cbits, abits) == nodesRead(cbits, abits, readUnsigned(sec, abits.r))
        abitsRead(cbits) == addedRead(cbits, ReadBits(sec, cbits.r, 8))
    IN  abitsRead(ReadBits(sec, Seek(newBitSeeker, 32), 8))

(***************************************************************************)
(* The in-place query engine (disk.go, dawg.go).                           *)
(***************************************************************************)
\* bsearch over a comparison given as the function cmp on 0..count-1:
\* [probe, match], match telling that the loop ended on a zero comparison
RECURSIVE bsearchLoop(_, _, _)
bsearchLoop(low, high, cmp) ==
    IF high - low > 1
    THEN LET probe == (high + low) \div 2
         IN  IF cmp[probe] = 0 THEN [probe |-> probe, match |-> TRUE]
             ELSE IF cmp[probe] < 0 THEN bsearchLoop(probe, high, cmp)
             ELSE bsearchLoop(low, probe, cmp)
    ELSE [probe |-> high, match |-> FALSE]

bsearch(count, cmp) == bsearchLoop(-1, count, cmp).probe

\* the node header both getEdge and getNode read: final, single edge, count
readNodeHeader(d, node) ==
    LET header(nodeFinal, numEdges) ==
            [nodeFinal |-> nodeFinal.v, numEdges |-> numEdges.v, r |-> numEdges.r]
        count(nodeFinal, singleEdge) ==
            header(nodeFinal,
                   IF singleEdge.v # 1 THEN readUnsigned(d.r.data, singleEdge.r)
                   ELSE [v |-> 1, r |-> singleEdge.r])
        single(nodeFinal) == count(nodeFinal, ReadBits(d.r.data, nodeFinal.r, 1))
    IN  single(ReadBits(d.r.data,
                        Seek(newBitSeeker, IF node = 0 THEN d.firstNodeOffset ELSE node),
                        1))

\* getEdge's bsearch with its closure, which reads through the seeker r:
\* [edgeEnd, final, ok]
RECURSIVE edgeSearch(_, _, _, _, _, _, _)
edgeSearch(d, eStart, pos, nodeFinal, r, low, high) ==
    IF high - low > 1
    THEN LET i == (high + low) \div 2
             found(count, node) ==
                 [edgeEnd |-> edgeEnd(node.v, count.v),
                  final |-> ReadBits(d.r.data, Seek(node.r, node.v), 1).v = 1,
                  ok |-> TRUE]
             target(count) == found(count, ReadBits(d.r.data, count.r, d.abits))
             probe(ch) ==
                 IF ch.v = eStart.ch
                 THEN target(IF i > 0 THEN ReadBits(d.r.data, ch.r, d.wbits)
                             ELSE [v |-> nodeFinal, r |-> ch.r])
                 ELSE IF ch.v - eStart.ch < 0
                 THEN edgeSearch(d, eStart, pos, nodeFinal, ch.r, i, high)
                 ELSE edgeSearch(d, eStart, pos, nodeFinal, ch.r, low, i)
         IN  probe(ReadBits(d.r.data,
                            Seek(r, pos + i * (d.cbits + d.wbits + d.abits)
                                    - (IF i > 0 THEN d.wbits ELSE 0)),
                            d.cbits))
    ELSE [edgeEnd |-> ZeroEdgeEnd, final |-> FALSE, ok |-> FALSE]

getEdge(d, eStart) ==
    IF d.numEdges = 0 THEN [edgeEnd |-> ZeroEdgeEnd, final |-> FALSE, ok |-> FALSE]
    ELSE IF ~d.r.open
    THEN LET end == MapGet(d.edges, eStart, ZeroEdgeEnd)
         IN  [edgeEnd |-> end, final |-> isFinal(d, end.node),
              ok |-> eStart \in DOMAIN d.edges]
    ELSE LET search(h) == edgeSearch(d, eStart, Tell(h.r), h.nodeFinal, h.r, -1, h.numEdges)
         IN  search(readNodeHeader(d, eStart.node))

\* getNode's loop over the edge records; i counts from 0
RECURSIVE readEdges(_, _, _, _, _)
readEdges(d, nodeFinal, r, i, numEdges) ==
    IF i >= numEdges THEN <<>>
    ELSE LET edge(ch, count, address) ==
                 <<[ch |-> ch.v, count |-> count.v, node |-> address.v]>>
                 \o readEdges(d, nodeFinal, address.r, i + 1, numEdges)
             target(ch, count) == edge(ch, count, ReadBits(d.r.data, count.r, d.abits))
             counted(ch) ==
                 target(ch, IF i > 0 THEN ReadBits(d.r.data, ch.r, d.wbits)
                            ELSE [v |-> nodeFinal, r |-> ch.r])
         IN  counted(ReadBits(d.r.data, r, d.cbits))

getNode(d, node) ==
    LET result(h) ==
            [node |-> node, final |-> h.nodeFinal = 1,
             edges |-> readEdges(d, h.nodeFinal, h.r, 0, h.numEdges)]
    IN  result(readNodeHeader(d, node))

\* the walk IndexOf and FindAllPrefixesOf share, from letter k of input:
\* st is [node, skipped, final, results]; ok tells that no edge was missing
RECURSIVE walk(_, _, _, _)
walk(d, input, k, st) ==
    IF k > Len(input) THEN [st EXCEPT !.ok = TRUE]
    ELSE LET results1 == IF st.final
                         THEN Append(st.results,
                                     [Word |-> SubSeq(input, 1, k - 1), Index |-> st.skipped])
                         ELSE st.results
             follow(e) ==
                 IF ~e.ok THEN [st EXCEPT !.results = results1, !.ok = FALSE]
                 ELSE walk(d, input, k + 1,
                           [node |-> e.edgeEnd.node,
                            skipped |-> st.skipped + e.edgeEnd.count,
                            final |-> e.final, results |-> results1, ok |-> TRUE])
         IN  follow(getEdge(d, edgeStart(st.node, input[k])))

walkStart(d) ==
    [node |-> rootNode, skipped |-> 0, final |-> d.hasEmptyWord, results |-> <<>>,
     ok |-> TRUE]

\* IndexOf without the test of the final bit
IndexOfNoFinal(d, input) ==
    LET answer(st) == IF ~st.ok THEN -1 ELSE st.skipped
    IN  answer(walk(d, input, 1, walkStart(d)))

IndexOf(d, input) ==
    LET answer(st) == IF ~st.ok THEN -1 ELSE IF st.final THEN st.skipped ELSE -1
    IN  answer(walk(d, input, 1, walkStart(d)))

\* FindAllPrefixesOf without the append after the loop
FindAllPrefixesOfNoLast(d, input) == walk(d, input, 1, walkStart(d)).results

FindAllPrefixesOf(d, input) ==
    LET answer(st) ==
            IF ~st.ok THEN st.results
            ELSE IF st.final
            THEN Append(st.results, [Word |-> input, Index |-> st.skipped])
            ELSE st.results
    IN  answer(walk(d, input, 1, walkStart(d)))

\* atIndex: [result, ok, panic]; panic is the index-out-of-range of
\* node.edges[next] when next is -1.  atIndexLoop is its loop from edge i.
RECURSIVE atIndex(_, _, _, _, _)
RECURSIVE atIndexLoop(_, _, _, _, _, _)
atIndexLoop(d, node, i, atIdx, targetIndex, runes) ==
    IF i >= Len(node.edges) THEN [result |-> <<>>, ok |-> FALSE, panic |-> FALSE]
    ELSE IF i < 0 THEN [result |-> <<>>, ok |-> FALSE, panic |-> TRUE]
    ELSE LET next(sub) ==
                 IF sub.ok \/ sub.panic THEN sub
                 ELSE atIndexLoop(d, node, i + 1, atIdx, targetIndex, runes)
         IN  next(atIndex(d, node.edges[i + 1].node, atIdx + node.edges[i + 1].count,
                          targetIndex, Append(runes, node.edges[i + 1].ch)))

\* atIndex without the test of node.final
atIndexNoFinal(d, nodeNumber, atIdx, targetIndex, runes) ==
    LET first(node, n, next) ==
            IF next = n \/ atIdx + node.edges[next + 1].count > targetIndex
            THEN next - 1 ELSE next
        search(node) ==
            bsearch(Len(node.edges),
                    [i \in 0..(Len(node.edges) - 1) |->
                        atIdx + node.edges[i + 1].count - targetIndex])
        descend(node) ==
            IF atIdx = targetIndex
            THEN [result |-> runes, ok |-> TRUE, panic |-> FALSE]
            ELSE atIndexLoop(d, node, first(node, Len(node.edges), search(node)),
                             atIdx, targetIndex, runes)
    IN  descend(getNode(d, nodeNumber))

atIndex(d, nodeNumber, atIdx, targetIndex, runes) ==
    LET first(node, n, next) ==
            IF next = n \/ atIdx + node.edges[next + 1].count > targetIndex
            THEN next - 1 ELSE next
        search(node) ==
            bsearch(Len(node.edges),
                    [i \in 0..(Len(node.edges) - 1) |->
                        atIdx + node.edges[i + 1].count - targetIndex])
        descend(node) ==
            IF node.final /\ atIdx = targetIndex
            THEN [result |-> runes, ok |-> TRUE, panic |-> FALSE]
            ELSE atIndexLoop(d, node, first(node, Len(node.edges), search(node)),
                             atIdx, targetIndex, runes)
    IN  descend(getNode(d, nodeNumber))

\* AtIndex with index > NumAdded in place of index >= NumAdded
AtIndexInclusive(d, index) ==
    IF index < 0 \/ index > d.numAdded
    THEN [word |-> <<>>, err |-> "invalid index", panic |-> FALSE]
    ELSE LET answer(a) == [word |-> a.result, err |-> "", panic |-> a.panic]
         IN  answer(atIndex(d, rootNode, 0, index, <<>>))

AtIndex(d, index) ==
    IF index < 0 \/ index >= d.numAdded
    THEN [word |-> <<>>, err |-> "invalid index", panic |-> FALSE]
    ELSE LET answer(a) == [word |-> a.result, err |-> "", panic |-> a.panic]
         IN  answer(atIndex(d, rootNode, 0, index, <<>>))

\* The callback handed to Enumerate: it answers Stop at the prefix stopAt,
\* Skip at the prefix skipAt and Continue elsewhere.
NoPrefix == <<-1>>

callback(fn, index, word, final) ==
    IF word = fn.stopAt THEN Stop
    ELSE IF word = fn.skipAt THEN Skip
    ELSE Continue

\* enumerate returns its result and the callbacks made, in order;
\* enumerateLoop is its loop over the edges from position k, result being
\* the value the loop variable holds
RECURSIVE enumerate(_, _, _, _, _)
RECURSIVE enumerateLoop(_, _, _, _, _, _, _)
\* enumerateLoop variants: the index without edge.count, the loop left on
\* any result but Continue, and the loop never left
enumerateLoopNoCount(d, index, edges, k, runes, fn, result) ==
    IF k > Len(edges) THEN [result |-> result, calls |-> <<>>]
    ELSE LET join(sub, rest) == [result |-> rest.result, calls |-> sub.calls \o rest.calls]
             next(sub) ==
                 IF sub.result = Stop THEN sub
                 ELSE join(sub, enumerateLoop(d, index, edges, k + 1, runes, fn, sub.result))
         IN  next(enumerate(d, index, edges[k].node, Append(runes, edges[k].ch), fn))

enumerateLoopBreakOnSkip(d, index, edges, k, runes, fn, result) ==
    IF k > Len(edges) THEN [result |-> result, calls |-> <<>>]
    ELSE LET join(sub, rest) == [result |-> rest.result, calls |-> sub.calls \o rest.calls]
             next(sub) ==
                 IF sub.result # Continue THEN sub
                 ELSE join(sub, enumerateLoop(d, index, edges, k + 1, runes, fn, sub.result))
         IN  next(enumerate(d, index + edges[k].count, edges[k].node,
                            Append(runes, edges[k].ch), fn))

enumerateLoopNoBreak(d, index, edges, k, runes, fn, result) ==
    IF k > Len(edges) THEN [result |-> result, calls |-> <<>>]
    ELSE LET join(sub, rest) == [result |-> rest.result, calls |-> sub.calls \o rest.calls]
             next(sub) ==
                 join(sub, enumerateLoop(d, index, edges, k + 1, runes, fn, sub.result))
         IN  next(enumerate(d, index + edges[k].count, edges[k].node,
                            Append(runes, edges[k].ch), fn))

enumerateLoop(d, index, edges, k, runes, fn, result) ==
    IF k > Len(edges) THEN [result |-> result, calls |-> <<>>]
    ELSE LET join(sub, rest) == [result |-> rest.result, calls |-> sub.calls \o rest.calls]
             next(sub) ==
                 IF sub.result = Stop THEN sub
                 ELSE join(sub, enumerateLoop(d, index, edges, k + 1, runes, fn, sub.result))
         IN  next(enumerate(d, index + edges[k].count, edges[k].node,
                            Append(runes, edges[k].ch), fn))

enumerate(d, index, address, runes, fn) ==
    LET call(node, result) ==
            [index |-> index, word |-> runes, final |-> node.final, result |-> result]
        children(node, result, sub) ==
            [result |-> sub.result, calls |-> <<call(node, result)>> \o sub.calls]
        answered(node, result) ==
            IF result # Continue
            THEN [result |-> result, calls |-> <<call(node, result)>>]
            ELSE children(node, result,
                          enumerateLoop(d, index, node.edges, 1, runes, fn, result))
        visit(node) == answered(node, callback(fn, index, runes, node.final))
    IN  visit(getNode(d, address))

Enumerate(d, fn) == enumerate(d, 0, rootNode, <<>>, fn).calls

IsPrefix(p, w) == Len(p) <= Len(w) /\ SubSeq(w, 1, Len(p)) = p

\* The callbacks of the model: the one that always continues, those that
\* skip at one prefix, those that stop at one prefix, and those that skip
\* at one prefix and stop at a later one outside the skipped subtree.
Callbacks ==
    {[skipAt |-> s, stopAt |-> t] :
        s \in Strings \cup {NoPrefix}, t \in {NoPrefix}}
    \cup {[skipAt |-> s, stopAt |-> t] : s \in {NoPrefix}, t \in Strings}
    \cup {x \in [skipAt : Strings, stopAt : Strings] :
             StrLess(x.skipAt, x.stopAt) /\ ~IsPrefix(x.skipAt, x.stopAt)}

(***************************************************************************)
(* Finish (dawg.go).  FinishBuild is the builder after the one-time part   *)
(* of Finish, for the remap renumber's loop produced.                      *)
(***************************************************************************)
FinishCounted(d) ==
    LET cleared(d3) ==
            [d3 EXCEPT !.names = EmptyMap, !.uncheckedNodes = <<>>,
                       !.minimizedNodes = EmptyMap, !.lastWord = <<>>]
        counted(d1) ==
            [d1 EXCEPT !.numNodes = Cardinality(DOMAIN d1.minimizedNodes) + 1,
                       !.numEdges = Cardinality(DOMAIN d1.edges)]
    IN  cleared(calculateSkipped(counted(minimize([d EXCEPT !.finished = TRUE], 0)),
                                 EmptyMap, rootNode).d)

FinishBuild(d, remap) ==
    LET written(d4, wr) ==
            [d4 EXCEPT !.size = wr.n, !.r = BytesReader(wr.out),
                       !.edges = EmptyMap, !.final = EmptyMap]
        image(d4) == written(d4, Write(d4))
    IN  image(renumber(FinishCounted(d), remap))

(***************************************************************************)
(* The state: the Builder d, the Finder that Finish returned, the bytes    *)
(* the last Write sent to its sink, the Finder that Read returned over     *)
(* them, the words added so far (history), and the last call with what it  *)
(* returned.  A Finder variable holds the zero dawg until it is set.       *)
(* running holds, for each goroutine that queries the Finder, the query    *)
(* it runs with its local variables and its position; seekers holds the    *)
(* bit readers of the calls of getEdge and getNode in progress.  bw is a    *)
(* bitWriter over a buffer of its own and wroteBits the values and widths  *)
(* handed to its WriteBits so far.                                         *)
(***************************************************************************)
VARIABLES d, finder, sink, loaded, added, op, running, seekers, bw, wroteBits

vars == <<d, finder, sink, loaded, added, op, running, seekers, bw, wroteBits>>

\* the goroutines that query one Finder
Threads == 1..MaxThreads

\* a goroutine that runs no query
Idle ==
    [pc |-> "idle", query |-> "", arg |-> <<>>, target |-> 0, hdr |-> <<>>, pos |-> 0,
     cur |-> <<>>, stack |-> <<>>, out |-> <<>>, result |-> <<>>]

Init ==
    /\ d = New
    /\ finder = ZeroDawg
    /\ sink = <<>>
    /\ loaded = ZeroDawg
    /\ added = <<>>
    /\ op = [name |-> "New"]
    /\ running = [t \in Threads |-> Idle]
    /\ seekers = [t \in Threads |-> newBitSeeker]
    /\ bw = newBitWriter
    /\ wroteBits = <<>>

DoAdd ==
    \E w \in Strings :
        /\ LET p == AddPanic(d, w)
           IN  IF p = ""
               THEN /\ Len(added) < MaxWords
                    /\ d' = Add(d, w)
                    /\ added' = Append(added, w)
                    /\ op' = [name |-> "Add", word |-> w, panic |-> "",
                              canAdd |-> CanAdd(d, w)]
               ELSE /\ UNCHANGED <<d, added>>
                    /\ op' = [name |-> "Add", word |-> w, panic |-> p,
                              canAdd |-> CanAdd(d, w)]
        /\ UNCHANGED <<finder, sink, loaded, running, seekers, bw, wroteBits>>

\* Finish without the test of d.finished
DoFinishRebuild ==
    /\ \E remap \in Remaps(FinishCounted(d), [n \in {rootNode} |-> rootNode]) :
           d' = FinishBuild(d, remap)
    /\ finder' = Read(d'.r.data, 0)
    /\ op' = [name |-> "Finish"]
    /\ UNCHANGED <<sink, loaded, added, running, seekers, bw, wroteBits>>

DoFinish ==
    /\ IF ~d.finished
       THEN \E remap \in Remaps(FinishCounted(d), [n \in {rootNode} |-> rootNode]) :
                d' = FinishBuild(d, remap)
       ELSE UNCHANGED d
    /\ finder' = Read(d'.r.data, 0)
    /\ op' = [name |-> "Finish"]
    /\ UNCHANGED <<sink, loaded, added, running, seekers, bw, wroteBits>>

DoIndexOf ==
    \E input \in Strings :
        /\ finder.finished
        /\ op' = [name |-> "IndexOf", input |-> input,
                  result |-> IndexOf(finder, input)]
        /\ UNCHANGED <<d, finder, sink, loaded, added, running, seekers, bw, wroteBits>>

DoFindAllPrefixesOf ==
    \E input \in Strings :
        /\ finder.finished
        /\ op' = [name |-> "FindAllPrefixesOf", input |-> input,
                  result |-> FindAllPrefixesOf(finder, input)]
        /\ UNCHANGED <<d, finder, sink, loaded, added, running, seekers, bw, wroteBits>>

DoAtIndex ==
    \E index \in -1..MaxWords :
        /\ finder.finished
        /\ op' = [name |-> "AtIndex", index |-> index,
                  result |-> AtIndex(finder, index)]
        /\ UNCHANGED <<d, finder, sink, loaded, added, running, seekers, bw, wroteBits>>

DoEnumerate ==
    \E fn \in Callbacks :
        /\ finder.finished
        /\ op' = [name |-> "Enumerate", fn |-> fn, calls |-> Enumerate(finder, fn)]
        /\ UNCHANGED <<d, finder, sink, loaded, added, running, seekers, bw, wroteBits>>

\* Write (and Save, which checks finished and writes to a file), called on
\* the Builder or on the Finder that Finish returned
DoWrite ==
    \E t \in {"builder", "finder"} :
        LET wrote(wr) ==
                /\ sink' = wr.out
                /\ op' = [name |-> "Write", on |-> t, n |-> wr.n, err |-> wr.err]
        IN  /\ t = "finder" => finder.finished
            /\ wrote(Write(IF t = "builder" THEN d ELSE finder))
            /\ UNCHANGED <<d, finder, loaded, added, running, seekers, bw, wroteBits>>

\* Read (and Load, which maps the file and reads at offset 0) over the
\* bytes written
DoRead ==
    /\ ~ReadPanics(sink, 0)
    /\ loaded' = Read(sink, 0)
    /\ op' = [name |-> "Read"]
    /\ UNCHANGED <<d, finder, sink, added, running, seekers, bw, wroteBits>>

\* the builder after adding the words of a list from position i
RECURSIVE AddAll(_, _, _)
AddAll(b, words, i) ==
    IF i > Len(words) THEN b ELSE AddAll(Add(b, words[i]), words, i + 1)

\* the image Finish builds for a list of words
ImageOf(words) ==
    LET built(b) ==
            FinishBuild(b, CHOOSE remap \in Remaps(FinishCounted(b),
                                                   [n \in {rootNode} |-> rootNode]) : TRUE)
    IN  built(AddAll(New, words, 1)).r.data

\* What precedes an image in a larger byte source: nothing, or the image
\* of another dawg.
Preceding == {<<>>, ImageOf(<<>>), ImageOf(<< <<1>> >>), ImageOf(<< <<>>, <<0>> >>)}

\* Read at the offset of the image written, in a source where other bytes
\* precede it
DoReadAt ==
    \E pad \in Preceding :
        /\ ~ReadPanics(pad \o sink, Len(pad))
        /\ loaded' = Read(pad \o sink, Len(pad))
        /\ op' = [name |-> "ReadAt", offset |-> Len(pad)]
        /\ UNCHANGED <<d, finder, sink, added, running, seekers, bw, wroteBits>>

(***************************************************************************)
(* The queries called on the Builder itself (New returns the dawg, which   *)
(* has the Finder's methods too) before Finish.  A call's outcome is the   *)
(* panic it raises, "" for none, and what it returns.                      *)
(***************************************************************************)
checkFinished(b) == IF ~b.finished THEN "dawg was not Finished()" ELSE ""

\* ReadAt through the nil io.ReaderAt of a dawg that has no image
NilReaderPanic(b) == IF ~b.r.open THEN "nil pointer dereference" ELSE ""

\* IndexOf makes no check; with d.r nil getEdge looks the edge up in the maps
IndexOfCall(b, input) == [panic |-> "", result |-> IndexOf(b, input)]

FindAllPrefixesOfCall(b, input) ==
    IF checkFinished(b) # "" THEN [panic |-> checkFinished(b), result |-> <<>>]
    ELSE [panic |-> "", result |-> FindAllPrefixesOf(b, input)]

\* AtIndex tests the index, then atIndex's getNode reads through d.r
AtIndexCall(b, index) ==
    IF index < 0 \/ index >= b.numAdded
    THEN [panic |-> "", result |-> AtIndex(b, index)]
    ELSE IF NilReaderPanic(b) # "" THEN [panic |-> NilReaderPanic(b), result |-> <<>>]
    ELSE [panic |-> "", result |-> AtIndex(b, index)]

\* enumerate's getNode reads through d.r before the first callback
EnumerateCall(b, fn) ==
    IF NilReaderPanic(b) # "" THEN [panic |-> NilReaderPanic(b), result |-> <<>>]
    ELSE [panic |-> "", result |-> Enumerate(b, fn)]

DoBuilderIndexOf ==
    \E input \in Strings :
        /\ ~d.finished
        /\ op' = [name |-> "Builder.IndexOf", input |-> input,
                  outcome |-> IndexOfCall(d, input)]
        /\ UNCHANGED <<d, finder, sink, loaded, added, running, seekers, bw, wroteBits>>

DoBuilderFindAllPrefixesOf ==
    \E input \in Strings :
        /\ ~d.finished
        /\ op' = [name |-> "Builder.FindAllPrefixesOf", input |-> input,
                  outcome |-> FindAllPrefixesOfCall(d, input)]
        /\ UNCHANGED <<d, finder, sink, loaded, added, running, seekers, bw, wroteBits>>

DoBuilderAtIndex ==
    \E index \in -1..MaxWords :
        /\ ~d.finished
        /\ op' = [name |-> "Builder.AtIndex", index |-> index,
                  outcome |-> AtIndexCall(d, index)]
        /\ UNCHANGED <<d, finder, sink, loaded, added, running, seekers, bw, wroteBits>>

DoBuilderEnumerate ==
    \E fn \in Callbacks :
        /\ ~d.finished
        /\ op' = [name |-> "Builder.Enumerate", fn |-> fn,
                  outcome |-> EnumerateCall(d, fn)]
        /\ UNCHANGED <<d, finder, sink, loaded, added, running, seekers, bw, wroteBits>>

\* a source that was closed: every ReadAt on it fails
ClosedReader == [open |-> TRUE, data |-> <<>>]

\* Close: closes d.r when it is an io.Closer (the mapped file of Load),
\* and does nothing otherwise (the bytes.Reader that Finish makes)
Close(b, closer) == IF closer THEN [b EXCEPT !.r = ClosedReader] ELSE b

\* Close on the Finder that Finish returned or on the one that Read (or
\* Load) returned
DoClose ==
    \/ /\ finder.finished
       /\ finder' = Close(finder, FALSE)
       /\ op' = [name |-> "Close", on |-> "finder"]
       /\ UNCHANGED <<d, sink, loaded, added, running, seekers, bw, wroteBits>>
    \/ \E closer \in BOOLEAN :
          /\ loaded.finished
          /\ loaded' = Close(loaded, closer)
          /\ op' = [name |-> "Close", on |-> "loaded"]
          /\ UNCHANGED <<d, finder, sink, added, running, seekers, bw, wroteBits>>

\* a file cut after its first n bytes, its size field saying declared
Truncated(f, n, declared) == <<0, 0, 0, declared>> \o SubSeq(f, 5, n)

\* Read over a file that was cut short; the size field holds the length
\* of what is left or still the length of the whole image
DoReadTruncated ==
    \E n \in 5..(Len(sink) - 1) :
        \E declared \in {n, Len(sink)} :
            /\ loaded' = Read(Truncated(sink, n, declared), 0)
            /\ op' = [name |-> "ReadTruncated", cut |-> n]
            /\ UNCHANGED <<d, finder, sink, added, running, seekers, bw, wroteBits>>

\* FindByPrefix's loop over the letters of input from letter k:
\* [ok, node, word], word being the letters followed
RECURSIVE prefixWalk(_, _, _, _)
prefixWalk(b, input, k, node) ==
    IF k > Len(input) THEN [ok |-> TRUE, node |-> node, word |-> input]
    ELSE LET follow(e) ==
                 IF ~e.ok
                 THEN [ok |-> FALSE, node |-> node, word |-> SubSeq(input, 1, k - 1)]
                 ELSE prefixWalk(b, input, k + 1, e.edgeEnd.node)
         IN  follow(getEdge(b, edgeStart(node, input[k])))

\* FindByPrefix's second loop: takes edges[0] of the node, which panics
\* when the node has no edge, and stops at the first final node
RECURSIVE firstEdges(_, _, _)
firstEdges(b, nodeResult, wordSl) ==
    IF Len(nodeResult.edges) = 0
    THEN [word |-> <<>>, panic |-> "index out of range [0] with length 0"]
    ELSE LET step(next, ch) ==
                 IF next.final THEN [word |-> Append(wordSl, ch), panic |-> ""]
                 ELSE firstEdges(b, next, Append(wordSl, ch))
         IN  step(getNode(b, nodeResult.edges[1].node), nodeResult.edges[1].ch)

FindByPrefix(b, input) ==
    IF checkFinished(b) # "" THEN [word |-> <<>>, panic |-> checkFinished(b)]
    ELSE LET after(w) ==
                 IF ~w.ok THEN [word |-> w.word, panic |-> ""]
                 ELSE firstEdges(b, getNode(b, w.node), input)
         IN  after(prefixWalk(b, input, 1, rootNode))

DoFindByPrefix ==
    \E s \in Strings :
        /\ finder.finished
        /\ op' = [name |-> "FindByPrefix", input |-> s, result |-> FindByPrefix(finder, s)]
        /\ UNCHANGED <<d, finder, sink, loaded, added, running, seekers, bw, wroteBits>>

\* numEdges as addChild counts it (d.numEdges++ for each call, and
\* replaceChild takes nothing back) over the Adds of words[1..i]: Add
\* calls addChild once for each letter behind the common prefix with the
\* word before
RECURSIVE addChildCalls(_, _)
addChildCalls(words, i) ==
    IF i = 0 THEN 0
    ELSE addChildCalls(words, i - 1) + Len(words[i])
         - commonPrefixFrom(words[i], IF i > 1 THEN words[i - 1] ELSE <<>>, 0)

(***************************************************************************)
(* Queries that run at the same time on one Finder.  A goroutine runs its  *)
(* query up to the next call of getEdge or getNode; the call takes two     *)
(* steps, the read of the node's header and the read of its edge records,  *)
(* and goroutines interleave between any two steps.                        *)
(***************************************************************************)
\* the Builder of a test: New, Add of each word, Finish
DoBuild ==
    \E words \in UNION {[1..n -> Strings] : n \in 0..MaxQueriedWords} :
        /\ ~d.finished /\ added = <<>>
        /\ \A i \in 1..(Len(words) - 1) : StrLess(words[i], words[i + 1])
        /\ \E remap \in Remaps(FinishCounted(AddAll(New, words, 1)),
                               [n \in {rootNode} |-> rootNode]) :
               d' = FinishBuild(AddAll(New, words, 1), remap)
        /\ finder' = Read(d'.r.data, 0)
        /\ added' = words
        /\ op' = [name |-> "Finish"]
        /\ UNCHANGED <<sink, loaded, running, seekers, bw, wroteBits>>

\* one bit reader for every goroutine
seekerShared(t) == 1

\* the bit reader a call of getEdge or getNode by goroutine t reads with:
\* r := newBitSeeker(d.r) is a local variable of the call
seekerOf(t) == t

\* the query returned
done(th, result) ==
    [Idle EXCEPT !.pc = "done", !.query = th.query, !.arg = th.arg, !.result = result]

\* the query calls getEdge or getNode for the node target
call(th, target) == [th EXCEPT !.pc = "call", !.target = target]

\* the return of IndexOf or FindAllPrefixesOf; found tells that no edge
\* was missing
walkAnswer(th, found) ==
    IF th.query = "IndexOf"
    THEN done(th, IF found /\ th.cur.final THEN th.cur.skipped ELSE -1)
    ELSE done(th, IF found /\ th.cur.final
                  THEN Append(th.out, [Word |-> th.arg, Index |-> th.cur.skipped])
                  ELSE th.out)

\* the loop of IndexOf and FindAllPrefixesOf at letter cur.k, up to its
\* call of getEdge
walkLoop(th, b) ==
    IF th.cur.k > Len(th.arg) THEN walkAnswer(th, TRUE)
    ELSE LET visited(th1) ==
                 IF b.numEdges = 0 THEN walkAnswer(th1, FALSE)
                 ELSE call(th1, th1.cur.node)
         IN  visited(IF th.query = "FindAllPrefixesOf" /\ th.cur.final
                     THEN [th EXCEPT !.out =
                              Append(th.out, [Word |-> SubSeq(th.arg, 1, th.cur.k - 1),
                                              Index |-> th.cur.skipped])]
                     ELSE th)

\* the loop after getEdge returned e
walkEdge(th, e, b) ==
    IF ~e.ok THEN walkAnswer(th, FALSE)
    ELSE walkLoop([th EXCEPT !.cur = [k |-> th.cur.k + 1, node |-> e.edgeEnd.node,
                                      skipped |-> th.cur.skipped + e.edgeEnd.count,
                                      final |-> e.final]], b)

\* enumerate's loop over the edges of the node on top of the stack, after
\* the callback or a recursive call returned result
RECURSIVE resumeEnumerate(_, _)
resumeEnumerate(th, result) ==
    IF th.stack = <<>> THEN done(th, th.out)
    ELSE LET top == th.stack[Len(th.stack)]
         IN  IF result = Stop \/ top.k > Len(top.edges)
             THEN resumeEnumerate([th EXCEPT !.stack = SubSeq(th.stack, 1, Len(th.stack) - 1)],
                                  result)
             ELSE call([th EXCEPT !.stack[Len(th.stack)].k = top.k + 1,
                                  !.cur = [index |-> top.index + top.edges[top.k].count,
                                           runes |-> Append(top.runes, top.edges[top.k].ch)]],
                       top.edges[top.k].node)

\* enumerate after getNode returned node
enumerateNode(th, node, fn) ==
    LET answered(result, th1) ==
            IF result # Continue THEN resumeEnumerate(th1, result)
            ELSE resumeEnumerate(
                     [th1 EXCEPT !.stack =
                         Append(th1.stack, [index |-> th.cur.index, edges |-> node.edges,
                                            k |-> 1, runes |-> th.cur.runes])],
                     result)
        visit(result) ==
            answered(result,
                     [th EXCEPT !.out =
                         Append(th.out, [index |-> th.cur.index, word |-> th.cur.runes,
                                         final |-> node.final, result |-> result])])
    IN  visit(callback(fn, th.cur.index, th.cur.runes, node.final))

\* atIndex's loop over the edges of the node on top of the stack, after a
\* recursive call returned without a word
RECURSIVE resumeAtIndex(_)
resumeAtIndex(th) ==
    IF th.stack = <<>> THEN done(th, [word |-> <<>>, err |-> "", panic |-> FALSE])
    ELSE LET top == th.stack[Len(th.stack)]
         IN  IF top.i >= Len(top.edges)
             THEN resumeAtIndex([th EXCEPT !.stack = SubSeq(th.stack, 1, Len(th.stack) - 1)])
             ELSE IF top.i < 0
             THEN done(th, [word |-> <<>>, err |-> "", panic |-> TRUE])
             ELSE call([th EXCEPT !.stack[Len(th.stack)].i = top.i + 1,
                                  !.cur = [atIdx |-> top.atIdx + top.edges[top.i + 1].count,
                                           runes |-> Append(top.runes, top.edges[top.i + 1].ch)]],
                       top.edges[top.i + 1].node)

\* atIndex after getNode returned node
atIndexNode(th, node) ==
    IF node.final /\ th.cur.atIdx = th.arg
    THEN done(th, [word |-> th.cur.runes, err |-> "", panic |-> FALSE])
    ELSE LET first(n, next) ==
                 IF next = n \/ th.cur.atIdx + node.edges[next + 1].count > th.arg
                 THEN next - 1 ELSE next
             search ==
                 bsearch(Len(node.edges),
                         [i \in 0..(Len(node.edges) - 1) |->
                             th.cur.atIdx + node.edges[i + 1].count - th.arg])
         IN  resumeAtIndex([th EXCEPT !.stack =
                               Append(th.stack, [edges |-> node.edges,
                                                 i |-> first(Len(node.edges), search),
                                                 atIdx |-> th.cur.atIdx,
                                                 runes |-> th.cur.runes])])

\* the callbacks of the queries that run at the same time
ConcurrentCallbacks ==
    {fn \in Callbacks : fn.skipAt \in {NoPrefix, <<0>>} /\ fn.stopAt \in {NoPrefix, <<1>>}}

\* the queries a goroutine may run
Queries ==
    {[query |-> "IndexOf", arg |-> s] : s \in StringsOfLen(MaxLen)}
    \cup {[query |-> "FindAllPrefixesOf", arg |-> s] : s \in StringsOfLen(MaxLen)}
    \cup {[query |-> "AtIndex", arg |-> k] : k \in 0..MaxQueriedWords}
    \cup {[query |-> "Enumerate", arg |-> fn] : fn \in ConcurrentCallbacks}

\* a query from its entry up to its first call of getEdge or getNode
start(q, b) ==
    LET entered(cur) == [Idle EXCEPT !.query = q.query, !.arg = q.arg, !.cur = cur]
    IN  CASE q.query \in {"IndexOf", "FindAllPrefixesOf"} ->
                 walkLoop(entered([k |-> 1, node |-> rootNode, skipped |-> 0,
                                   final |-> b.hasEmptyWord]), b)
          [] q.query = "AtIndex" ->
                 IF q.arg < 0 \/ q.arg >= b.numAdded
                 THEN done(entered(<<>>),
                           [word |-> <<>>, err |-> "invalid index", panic |-> FALSE])
                 ELSE call(entered([atIdx |-> 0, runes |-> <<>>]), rootNode)
          [] q.query = "Enumerate" ->
                 call(entered([index |-> 0, runes |-> <<>>]), rootNode)

\* the query after the edge records were read through the bit reader r
afterCall(th, r, b) ==
    LET got(node) ==
            IF th.query = "AtIndex" THEN atIndexNode(th, node)
            ELSE enumerateNode(th, node, th.arg)
    IN  IF th.query \in {"IndexOf", "FindAllPrefixesOf"}
        THEN walkEdge(th, edgeSearch(b, edgeStart(th.target, th.arg[th.cur.k]), th.pos,
                                     th.hdr.nodeFinal, r, -1, th.hdr.numEdges), b)
        ELSE got([node |-> th.target, final |-> th.hdr.nodeFinal = 1,
                  edges |-> readEdges(b, th.hdr.nodeFinal, r, 0, th.hdr.numEdges)])

\* a goroutine calls a query of the Finder
DoStartQuery ==
    \E t \in Threads, q \in Queries :
        /\ finder.finished
        /\ running[t].pc = "idle"
        /\ running' = [running EXCEPT ![t] = start(q, finder)]
        /\ UNCHANGED <<d, finder, sink, loaded, added, op, seekers, bw, wroteBits>>

\* getEdge and getNode up to the edge records: a new bit reader, the seek
\* to the node, the final bit and the number of edges
DoReadHeader ==
    \E t \in Threads :
        LET read(h) ==
                /\ seekers' = [seekers EXCEPT ![seekerOf(t)] = h.r]
                /\ running' = [running EXCEPT ![t] =
                                  [@ EXCEPT !.pc = "body", !.pos = Tell(h.r),
                                            !.hdr = [nodeFinal |-> h.nodeFinal,
                                                     numEdges |-> h.numEdges]]]
        IN  /\ running[t].pc = "call"
            /\ read(readNodeHeader(finder, running[t].target))
            /\ UNCHANGED <<d, finder, sink, loaded, added, op, bw, wroteBits>>

\* the rest of getEdge and getNode, which read the edge records, and the
\* query up to its next call or its return
DoReadEdges ==
    \E t \in Threads :
        /\ running[t].pc = "body"
        /\ running' = [running EXCEPT ![t] = afterCall(@, seekers[seekerOf(t)], finder)]
        /\ UNCHANGED <<d, finder, sink, loaded, added, op, seekers, bw, wroteBits>>

(***************************************************************************)
(* A bitWriter used alone, as TestBitReaderWriter uses it.                 *)
(***************************************************************************)
\* the values and the widths handed to WriteBits
BitValues == {0, 21, 42, 715827882, 1789569706}

BitWidths == {0, 1, 6, 8, 9, 30}

DoWriteBits ==
    \E v \in BitValues, n \in BitWidths :
        /\ Len(wroteBits) < MaxWrites
        /\ bw' = WriteBits(bw, v, n)
        /\ wroteBits' = Append(wroteBits, [call |-> "WriteBits", value |-> v, n |-> n])
        /\ UNCHANGED <<d, finder, sink, loaded, added, op, running, seekers>>

DoFlush ==
    /\ Len(wroteBits) < MaxWrites + 1
    /\ bw' = Flush(bw)
    /\ wroteBits' = Append(wroteBits, [call |-> "Flush", value |-> 0, n |-> 0])
    /\ UNCHANGED <<d, finder, sink, loaded, added, op, running, seekers>>

\* ReadBits(calls[i].n) for the calls from i on, through a reader r over
\* src: the values read
RECURSIVE readBack(_, _, _, _)
readBack(src, r, calls, i) ==
    IF i > Len(calls) THEN <<>>
    ELSE LET next(got) == <<got.v>> \o readBack(src, got.r, calls, i + 1)
         IN  next(ReadBits(src, r, calls[i].n))

RECURSIVE readBackWord(_, _, _, _)
readBackWord(src, r, calls, i) ==
    IF i > Len(calls) THEN <<>>
    ELSE LET next(got) == <<got.v>> \o readBackWord(src, got.r, calls, i + 1)
         IN  next(ReadBitsWord(src, r, calls[i].n))

(***************************************************************************)
(* CreateMinimalPerfectHash (dawg-dict/disk.go).  The hash function is a   *)
(* table hash[d][i] for the variants d up to MaxD; arrays are functions    *)
(* on 0..size-1.                                                           *)
(***************************************************************************)
\* the items of bucket b, in the order the first loop appends them
mphBucket(size, hash, b) ==
    LET inBucket(i) == hash[0][i] % size = b
    IN  SelectSeq([k \in 1..size |-> k - 1], inBucket)

\* the orders sort.Slice may leave the buckets in: no bucket before a
\* longer one; the sort is not stable
SortedOrders(size, hash) ==
    {ord \in [1..size -> 0..(size - 1)] :
        /\ \A j, k \in 1..size : j # k => ord[j] # ord[k]
        /\ \A k \in 1..(size - 1) :
              Len(mphBucket(size, hash, ord[k])) >= Len(mphBucket(size, hash, ord[k + 1]))}

\* the slots the items of a bucket hash to with variant dv
slotsFor(size, hash, bucket, dv) == [k \in 1..Len(bucket) |-> hash[dv][bucket[k]] % size]

\* every slot is free and no two items share one
fits(values, slots) ==
    /\ \A k \in 1..Len(slots) : values[slots[k]] = -1
    /\ \A j, k \in 1..Len(slots) : j # k => slots[j] # slots[k]

\* the first variant from dv on that places the bucket, 0 when none up
\* to MaxD does
RECURSIVE findD(_, _, _, _, _)
findD(size, hash, values, bucket, dv) ==
    IF dv > MaxD THEN 0
    ELSE IF fits(values, slotsFor(size, hash, bucket, dv)) THEN dv
    ELSE findD(size, hash, values, bucket, dv + 1)

\* the loop over the buckets of more than one item, from position b of
\* the sorted buckets: the tables and the position it stops at
RECURSIVE placeBuckets(_, _, _, _, _)
placeBuckets(size, hash, sorted, b, st) ==
    IF b > Len(sorted) THEN [st |-> st, b |-> b]
    ELSE IF Len(sorted[b]) <= 1 THEN [st |-> st, b |-> b]
    ELSE LET moved(dv, slots) ==
                 [G |-> [st.G EXCEPT ![hash[0][sorted[b][1]] % size] = dv],
                  values |-> [s \in 0..(size - 1) |->
                                 IF \E k \in 1..Len(slots) : slots[k] = s
                                 THEN sorted[b][CHOOSE k \in 1..Len(slots) : slots[k] = s]
                                 ELSE st.values[s]],
                  found |-> TRUE]
             placed(dv) ==
                 IF dv = 0 THEN [st |-> [st EXCEPT !.found = FALSE], b |-> b]
                 ELSE placeBuckets(size, hash, sorted, b + 1,
                                   moved(dv, slotsFor(size, hash, sorted[b], dv)))
         IN  placed(findD(size, hash, st.values, sorted[b], 1))

\* the value stored in G for a bucket of one item: -slot with a zero slot
\* in mind
freeSlotCodePlain(slot) == -slot

\* negative even for slot zero
freeSlotCode(slot) == -slot - 1

\* the loop over the buckets of one item from position nb, each taking the
\* last slot of the free list
RECURSIVE placeSingles(_, _, _, _, _, _)
placeSingles(size, hash, sorted, nb, st, freelist) ==
    IF nb > Len(sorted) THEN st
    ELSE IF Len(sorted[nb]) = 0 \/ Len(freelist) = 0 THEN st
    ELSE placeSingles(size, hash, sorted, nb + 1,
                      [st EXCEPT !.G[hash[0][sorted[nb][1]] % size] =
                                     freeSlotCode(freelist[Len(freelist)]),
                                 !.values[freelist[Len(freelist)]] = sorted[nb][1]],
                      SubSeq(freelist, 1, Len(freelist) - 1))

\* found is FALSE when a bucket has no variant up to MaxD, where the code
\* goes on with larger variants
CreateMinimalPerfectHash(size, hash, ord) ==
    LET isFree(values) ==
            LET free(s) == values[s] = -1
            IN  SelectSeq([k \in 1..size |-> k - 1], free)
        singles(large) ==
            IF ~large.st.found THEN large.st
            ELSE placeSingles(size, hash, [k \in 1..size |-> mphBucket(size, hash, ord[k])],
                              large.b, large.st, isFree(large.st.values))
    IN  singles(placeBuckets(size, hash, [k \in 1..size |-> mphBucket(size, hash, ord[k])], 1,
                             [G |-> [s \in 0..(size - 1) |-> 0],
                              values |-> [s \in 0..(size - 1) |-> -1],
                              found |-> TRUE]))

\* the two-level lookup of testMph: the slot of item i
mphSlot(size, hash, G, i) ==
    IF G[hash[0][i] % size] < 0 THEN -G[hash[0][i] % size] - 1
    ELSE hash[G[hash[0][i] % size]][i] % size

DoCreateMinimalPerfectHash ==
    /\ op.name = "New"
    /\ \E size \in 0..MaxItems :
        \E hash \in [0..MaxD -> [0..(size - 1) -> 0..MaxHash]] :
            \E ord \in SortedOrders(size, hash) :
                /\ op' = [name |-> "CreateMinimalPerfectHash", size |-> size, hash |-> hash,
                          tables |-> CreateMinimalPerfectHash(size, hash, ord)]
                /\ UNCHANGED <<d, finder, sink, loaded, added, running, seekers, bw, wroteBits>>

\* the values handed to the varint codec: the small ones and those around
\* the limits of its branches and of 28 bits
VarintValues ==
    0..MaxSmall \cup {126, 127, 128, 16382, 16383, 16384, 2097150, 2097151, 2097152,
                      268435454, 268435455, 268435456}

\* writeUnsigned(n) on a fresh writer, unsignedLength(n), and readUnsigned
\* over the bytes written followed by a byte of another value
DoWriteUnsigned ==
    \E n \in VarintValues, codec \in {"disk", "dawg-dict"} :
        LET read(x) == [v |-> x.v, consumed |-> Tell(x.r)]
            encoded(w, length) ==
                [panic |-> "", out |-> w.out, length |-> length,
                 read |-> read(readUnsigned(w.out \o <<255>>, newBitSeeker))]
            failed(p) ==
                [panic |-> p, out |-> <<>>, length |-> 0,
                 read |-> read([v |-> 0, r |-> newBitSeeker])]
            outcome == IF codec = "disk"
                       THEN IF writeUnsignedPanic(n) # "" THEN failed(writeUnsignedPanic(n))
                            ELSE encoded(writeUnsigned(newBitWriter, n), unsignedLength(n))
                       ELSE IF writeUnsigned4Panic(n) # "" THEN failed(writeUnsigned4Panic(n))
                            ELSE encoded(writeUnsigned4(newBitWriter, n), unsignedLength4(n))
        IN  /\ op' = [name |-> "writeUnsigned", n |-> n, codec |-> codec, result |-> outcome]
            /\ UNCHANGED <<d, finder, sink, loaded, added, running, seekers, bw, wroteBits>>

(***************************************************************************)
(* Properties.  added is the list W of the words added, in order.          *)
(***************************************************************************)
Range(seq) == {seq[i] : i \in 1..Len(seq)}

StrictlyExtends(w, p) == IsPrefix(p, w) /\ Len(w) > Len(p)

\* C1: on the Finder that Finish returned, IndexOf of the i-th word added
\* (counting from 0) returns i.
C1_IndexOfIsInsertionOrder ==
    op.name = "IndexOf" =>
        \A i \in 1..Len(added) : op.input = added[i] => op.result = i - 1

C1_Witness ==
    /\ op.name = "IndexOf"
    /\ Len(added) = MaxWords
    /\ op.input = added[Len(added)]
    /\ op.result = Len(added) - 1

\* C2: AtIndex(i) returns the i-th word added, without error, for every
\* i in [0, |W|); AtIndex(IndexOf(w)) is w for every word w added; and a
\* word AtIndex returns without error is a word that was added.
C2_AtIndexRoundTrip ==
    /\ op.name = "AtIndex" =>
        /\ op.index \in 0..(Len(added) - 1) =>
              /\ op.result.err = ""
              /\ ~op.result.panic
              /\ op.result.word = added[op.index + 1]
        /\ op.result.err = "" => op.result.word \in Range(added)
    /\ finder.finished =>
        \A i \in 1..Len(added) :
            AtIndex(finder, IndexOf(finder, added[i])) =
                [word |-> added[i], err |-> "", panic |-> FALSE]

C2_Witness ==
    /\ op.name = "AtIndex"
    /\ Len(added) = MaxWords
    /\ op.index = Len(added) - 1
    /\ op.result.word = added[Len(added)]
    /\ Len(op.result.word) = MaxLen

\* C3: IndexOf(s) returns -1 exactly when s is not one of the words added.
C3_IndexOfMinusOneIffAbsent ==
    op.name = "IndexOf" => (op.result = -1 <=> op.input \notin Range(added))

\* an absent string that extends a word added and is itself the strict
\* prefix of another word added
C3_Witness ==
    /\ op.name = "IndexOf"
    /\ op.result = -1
    /\ op.input \notin Range(added)
    /\ \E w \in Range(added) : StrictlyExtends(op.input, w)
    /\ \E w \in Range(added) : StrictlyExtends(w, op.input)

\* the pairs (W[i], i) with W[i] a prefix of q, in the order of W, which
\* for the prefixes of one string is the order of their lengths
RECURSIVE PrefixPairs(_, _, _)
PrefixPairs(W, q, i) ==
    IF i > Len(W) THEN <<>>
    ELSE (IF IsPrefix(W[i], q) THEN <<[Word |-> W[i], Index |-> i - 1]>> ELSE <<>>)
         \o PrefixPairs(W, q, i + 1)

\* C4: FindAllPrefixesOf(q) returns exactly the pairs (W[i], i) for which
\* W[i] is a prefix of q, each once, by ascending length.
C4_FindAllPrefixesExact ==
    op.name = "FindAllPrefixesOf" =>
        /\ op.result = PrefixPairs(added, op.input, 1)
        /\ \A i, j \in 1..Len(op.result) :
               i < j => Len(op.result[i].Word) < Len(op.result[j].Word)

\* the empty word, a strict prefix and the query itself are all stored
C4_Witness ==
    /\ op.name = "FindAllPrefixesOf"
    /\ Len(op.result) = 3
    /\ op.result[1].Word = <<>>
    /\ op.result[3].Word = op.input

\* what the callback was given at each call
Visits(calls) ==
    [i \in 1..Len(calls) |->
        [index |-> calls[i].index, word |-> calls[i].word, final |-> calls[i].final]]

AlwaysContinue == [skipAt |-> NoPrefix, stopAt |-> NoPrefix]

PrefixesOf(W) == {p \in Strings : \E w \in W : IsPrefix(p, w)}

FinalVisits(calls) ==
    LET IsFinalVisit(c) == c.final
    IN  SelectSeq(calls, IsFinalVisit)

\* C5: when the callback always returns Continue, Enumerate visits every
\* prefix of every word added exactly once, in depth-first preorder with
\* the edges in ascending order (each visit is lexicographically greater
\* than the one before); the final visits are exactly the words added, in
\* their order, and the index passed at each is IndexOf of the word.
C5_EnumerateTotality ==
    (op.name = "Enumerate" /\ op.fn = AlwaysContinue) =>
        LET calls == op.calls
            finals == FinalVisits(calls)
        IN  /\ \A i, j \in 1..Len(calls) :
                   i < j => StrLess(calls[i].word, calls[j].word)
            /\ {calls[i].word : i \in 1..Len(calls)} = PrefixesOf(Range(added)) \cup {<<>>}
            /\ [i \in 1..Len(finals) |-> finals[i].word] = added
            /\ \A i \in 1..Len(finals) :
                   finals[i].index = IndexOf(finder, finals[i].word)

\* three words, one of them a strict prefix of another, and a visit that
\* is not final
C5_Witness ==
    /\ op.name = "Enumerate"
    /\ op.fn = AlwaysContinue
    /\ Len(added) = MaxWords
    /\ \E v, w \in Range(added) : v # <<>> /\ StrictlyExtends(w, v)
    /\ Len(op.calls) > Len(added)

\* C6: when the callback returns Skip at the visit of prefix p, no callback
\* is made for a strict extension of p, and the other visits are those of
\* the traversal in which the callback continues at p, in the same order.
C6_SkipPrunesSubtree ==
    op.name = "Enumerate" =>
        \A k \in 1..Len(op.calls) :
            op.calls[k].result = Skip =>
                LET p == op.calls[k].word
                    Outside(c) == ~StrictlyExtends(c.word, p)
                    full == Enumerate(finder, [op.fn EXCEPT !.skipAt = NoPrefix])
                IN  /\ \A j \in 1..Len(op.calls) : Outside(op.calls[j])
                    /\ Visits(op.calls) = SelectSeq(Visits(full), Outside)

\* a Skip that cut off a word added, after which the traversal went on
C6_Witness ==
    /\ op.name = "Enumerate"
    /\ \E k \in 1..(Len(op.calls) - 1) :
          /\ op.calls[k].result = Skip
          /\ \E w \in Range(added) : StrictlyExtends(w, op.calls[k].word)
          /\ ~IsPrefix(op.calls[k].word, op.calls[k + 1].word)

\* C7: once the callback returns Stop no further callback is made: the
\* Stop visit is the last, and the visits are those of the traversal that
\* does not stop, up to it.
C7_StopEndsTraversal ==
    op.name = "Enumerate" =>
        \A k \in 1..Len(op.calls) :
            op.calls[k].result = Stop =>
                LET full == Enumerate(finder, [op.fn EXCEPT !.stopAt = NoPrefix])
                IN  /\ k = Len(op.calls)
                    /\ k <= Len(full)
                    /\ Visits(op.calls) = SubSeq(Visits(full), 1, k)

\* a Stop two levels down, with edges left unvisited at every level
C7_Witness ==
    /\ op.name = "Enumerate"
    /\ op.calls # <<>>
    /\ LET last == op.calls[Len(op.calls)]
       IN  /\ last.result = Stop
           /\ Len(last.word) = MaxLen
           /\ \E w \in Range(added) :
                 StrLess(last.word, w) /\ IsPrefix(<<Head(last.word)>>, w)
           /\ \E w \in Range(added) :
                 StrLess(last.word, w) /\ ~IsPrefix(<<Head(last.word)>>, w)

\* C8: Add(w) succeeds exactly when CanAdd(w) held before the call, and a
\* failing Add leaves the builder (numAdded, lastWord, the graph and the
\* unchecked stack) as it was.
C8_AddIffCanAdd ==
    [][op'.name = "Add" =>
          /\ (op'.panic = "") <=> CanAdd(d, op'.word)
          /\ op'.panic # "" => d' = d]_vars

\* a word added again to an unfinished builder
C8_Witness ==
    /\ op.name = "Add"
    /\ op.panic # ""
    /\ ~d.finished
    /\ d.numAdded > 0
    /\ op.word = d.lastWord

\* C9: Add on a builder after Finish fails with the finished-dawg panic
\* for every word, and does not change the dawg.
C9_AddAfterFinish ==
    [][(d.finished /\ op'.name = "Add") =>
          /\ op'.panic = "d.AddWord(): Tried to add to a finished dawg"
          /\ d' = d]_vars

\* C10: the Finder that Read makes of the bytes Write emitted for a
\* finished dawg has the counts of the Finder that Finish returned and
\* answers IndexOf, FindAllPrefixesOf, AtIndex and Enumerate as it does.
C10_ReadOfWriteEquivalent ==
    loaded.finished =>
        /\ finder.finished
        /\ loaded.numAdded = finder.numAdded
        /\ loaded.numNodes = finder.numNodes
        /\ loaded.numEdges = finder.numEdges
        /\ \A s \in Strings :
              /\ IndexOf(loaded, s) = IndexOf(finder, s)
              /\ FindAllPrefixesOf(loaded, s) = FindAllPrefixesOf(finder, s)
        /\ \A k \in -1..MaxWords : AtIndex(loaded, k) = AtIndex(finder, k)
        /\ \A fn \in Callbacks : Enumerate(loaded, fn) = Enumerate(finder, fn)

C10_Witness ==
    /\ op.name = "Read"
    /\ loaded.finished
    /\ loaded.numAdded = MaxWords
    /\ Len(sink) > 0
    /\ \A i \in 1..Len(added) : IndexOf(loaded, added[i]) = i - 1

\* C11: the Finder that Read(S, k) returns for an image stored at offset k
\* of a larger source S answers IndexOf, FindAllPrefixesOf, AtIndex,
\* Enumerate and Write as the Finder Read returns for the image alone.
C11_ReadAtOffset ==
    op.name = "ReadAt" =>
        /\ \A s \in Strings :
              /\ IndexOf(loaded, s) = IndexOf(Read(sink, 0), s)
              /\ FindAllPrefixesOf(loaded, s) = FindAllPrefixesOf(Read(sink, 0), s)
        /\ \A k \in -1..MaxWords : AtIndex(loaded, k) = AtIndex(Read(sink, 0), k)
        /\ \A fn \in Callbacks : Enumerate(loaded, fn) = Enumerate(Read(sink, 0), fn)
        /\ Write(loaded) = Write(Read(sink, 0))

\* C12: a second Finish leaves the builder, with its image and counts, as
\* it was, and returns a Finder equal to the one the first call returned
\* (same counts, same image, hence the same answers).
C12_FinishIdempotent ==
    [][(d.finished /\ op'.name = "Finish") =>
          /\ d' = d
          /\ finder' = finder
          /\ \A s \in Strings : IndexOf(finder', s) = IndexOf(finder, s)]_vars

\* a Finish after a Write that succeeded, hence after an earlier Finish
C12_Witness ==
    /\ op.name = "Finish"
    /\ sink # <<>>
    /\ d.finished
    /\ d.numAdded = MaxWords
    /\ finder = Read(d.r.data, 0)

\* C13: AtIndex(k) returns the invalid-index error and no word exactly
\* when k < 0 or k >= NumAdded, and neither fails nor panics for k in
\* [0, NumAdded).
C13_AtIndexOutOfRange ==
    op.name = "AtIndex" =>
        /\ finder.numAdded = Len(added)
        /\ (op.index < 0 \/ op.index >= Len(added)) <=> op.result.err = "invalid index"
        /\ op.result.err # "" => op.result.word = <<>>
        /\ op.index \in 0..(Len(added) - 1) => (op.result.err = "" /\ ~op.result.panic)

\* index 0 on the empty dawg
C13_Witness ==
    /\ op.name = "AtIndex"
    /\ added = <<>>
    /\ op.index = 0
    /\ op.result = [word |-> <<>>, err |-> "invalid index", panic |-> FALSE]

BuilderQueries ==
    {"Builder.IndexOf", "Builder.FindAllPrefixesOf", "Builder.AtIndex",
     "Builder.Enumerate"}

\* C14: IndexOf, FindAllPrefixesOf, AtIndex and Enumerate called on a
\* Builder before Finish fail with the not-finished panic instead of
\* returning a result.
C14_QueriesNeedFinish ==
    (op.name \in BuilderQueries /\ ~d.finished) =>
        op.outcome.panic = "dawg was not Finished()"

\* a call that ends in a panic
CallFails(outcome) == outcome.panic # ""

ClosedFinder == IF op.on = "finder" THEN finder ELSE loaded

\* C15: after Close on a Finder every call on it fails instead of
\* returning a query result.
C15_CallsAfterCloseFail ==
    op.name = "Close" =>
        /\ \A s \in Strings :
              /\ CallFails(IndexOfCall(ClosedFinder, s))
              /\ CallFails(FindAllPrefixesOfCall(ClosedFinder, s))
        /\ \A k \in 0..(ClosedFinder.numAdded - 1) :
              \/ CallFails(AtIndexCall(ClosedFinder, k))
              \/ AtIndexCall(ClosedFinder, k).result.err # ""
        /\ \A fn \in Callbacks : CallFails(EnumerateCall(ClosedFinder, fn))

\* getEdge from the root has to read its first bit behind the last byte
\* of the source and behind size_bytes
ReadsOutside(b, input) ==
    /\ b.numEdges > 0 /\ input # <<>>
    /\ b.firstNodeOffset \div 8 >= Len(b.r.data)
    /\ b.firstNodeOffset \div 8 >= b.size

\* C16: a query that has to read outside the declared size of a cut image
\* fails instead of returning a result made from bytes that were not read.
C16_ReadOutsideFails ==
    op.name = "ReadTruncated" =>
        \A s \in Strings :
            ReadsOutside(loaded, s) => CallFails(IndexOfCall(loaded, s))

\* C17: a Write that succeeds emits exactly as many bytes as the first 32
\* bits of the emitted image say and returns that number; the bytes are
\* the image Finish serialized, and Write again, on the Builder, on its
\* Finder or on a Finder read back from the bytes, emits the same bytes.
C17_WriteEmitsSizeBytes ==
    (op.name = "Write" /\ op.err = "") =>
        /\ op.n = Len(sink)
        /\ op.n = readUint32(sink, 0)
        /\ op.n = d.size
        /\ sink = d.r.data
        /\ Write(d) = [out |-> sink, n |-> op.n, err |-> ""]
        /\ Write(finder) = [out |-> sink, n |-> op.n, err |-> ""]
        /\ Write(Read(sink, 0)) = [out |-> sink, n |-> op.n, err |-> ""]

C17_Witness ==
    /\ op.name = "Write" /\ op.err = "" /\ op.on = "builder"
    /\ Len(added) = MaxWords /\ op.n = Len(sink) /\ op.n > 11

\* C18: for an input that is a prefix of a stored word FindByPrefix
\* returns, without a panic, a stored word that starts with the input.
C18_FindByPrefixReturnsStoredWord ==
    (op.name = "FindByPrefix" /\ \E w \in Range(added) : IsPrefix(op.input, w)) =>
        /\ op.result.panic = ""
        /\ op.result.word \in Range(added)
        /\ IsPrefix(op.input, op.result.word)

\* the words that may follow p in the set W
Residual(W, p) == {s \in Strings : p \o s \in W}

\* the nodes of the minimal graph of W: the root and one node for each
\* distinct set of continuations of a prefix of W
MinimalNodes(W) == {W} \cup {Residual(W, p) : p \in PrefixesOf(W)}

MinimalEdges(W) ==
    {e \in MinimalNodes(W) \X Chars : \E s \in e[1] : s # <<>> /\ Head(s) = e[2]}

\* the node addresses the image of b reaches from the root
RECURSIVE imageNodes(_, _, _)
imageNodes(b, frontier, seen) ==
    IF frontier = {} THEN seen
    ELSE LET n == CHOOSE x \in frontier : TRUE
             targets(nr) == {nr.edges[i].node : i \in 1..Len(nr.edges)}
             step(ts) == imageNodes(b, (frontier \cup ts) \ (seen \cup {n}), seen \cup {n})
         IN  step(targets(getNode(b, n)))

\* the edge records of a set of nodes of the image of b
RECURSIVE edgeRecords(_, _)
edgeRecords(b, nodes) ==
    IF nodes = {} THEN 0
    ELSE LET n == CHOOSE x \in nodes : TRUE
         IN  Len(getNode(b, n).edges) + edgeRecords(b, nodes \ {n})

\* after Finish NumAdded is the number of Adds that succeeded, NumNodes
\* the number of nodes of the minimal graph, which are the nodes of the
\* image, and NumEdges as Finish sets it from len(d.edges) the number of
\* its edges, which are the edge records of the image
CountsOfGraph ==
    finder.finished =>
        /\ finder.numAdded = Len(added)
        /\ finder.numNodes = Cardinality(MinimalNodes(Range(added)))
        /\ finder.numNodes = Cardinality(imageNodes(finder, {rootNode}, {}))
        /\ finder.numEdges = Cardinality(MinimalEdges(Range(added)))
        /\ finder.numEdges = edgeRecords(finder, imageNodes(finder, {rootNode}, {}))
        /\ added = <<>> =>
              finder.numAdded = 0 /\ finder.numNodes = 1 /\ finder.numEdges = 0

\* C19: after Finish NumAdded, NumNodes and NumEdges are the number of
\* Adds that succeeded and the numbers of nodes and of edges of the
\* minimized graph, NumEdges also where addChild counts it.
C19_CountersAfterFinish ==
    finder.finished =>
        /\ CountsOfGraph
        /\ addChildCalls(added, Len(added)) = Cardinality(MinimalEdges(Range(added)))

\* the in-memory graph of Finish after its minimize(0), before the names
\* are dropped
FinishedGraph(words) == minimize([AddAll(New, words, 1) EXCEPT !.finished = TRUE], 0)

\* the nodes the names lists of b reach from the root
RECURSIVE graphNodes(_, _, _)
graphNodes(b, frontier, seen) ==
    IF frontier = {} THEN seen
    ELSE LET n == CHOOSE x \in frontier : TRUE
             targets(es) == {es[i].node : i \in 1..Len(es)}
             step(ts) == graphNodes(b, (frontier \cup ts) \ (seen \cup {n}), seen \cup {n})
         IN  step(targets(namesOf(b, n)))

\* no two of the nodes of the graph b have the same canonical name
UniqueNames(b, nodes) ==
    \A m, n \in nodes : m # n => nameOf(b, m) # nameOf(b, n)

\* the final flag and the (char, target) pairs of a node record
recordShape(nr) ==
    <<nr.final, [i \in 1..Len(nr.edges) |-> <<nr.edges[i].ch, nr.edges[i].node>>]>>

\* no two of the node records of the image b have the same final flag
\* and the same edges
UniqueRecords(b, nodes) ==
    \A m, n \in nodes : m # n => recordShape(getNode(b, m)) # recordShape(getNode(b, n))

\* C23: after Finish no two distinct nodes of the graph, the root
\* included, have the same final flag and the same sequence of (char,
\* target) edges, in the image as in the graph minimize leaves, where no
\* two nodes have the same canonical name.
C23_NoEquivalentNodes ==
    finder.finished =>
        /\ UniqueNames(FinishedGraph(added), graphNodes(FinishedGraph(added), {rootNode}, {}))
        /\ UniqueRecords(finder, imageNodes(finder, {rootNode}, {}))

\* Finish has merged nodes: the graph has fewer nodes than the words have
\* prefixes
C23_Witness ==
    /\ finder.finished /\ Len(added) = MaxWords
    /\ finder.numNodes < Cardinality(PrefixesOf(Range(added)))
    /\ finder.numNodes > 2

\* the number of words of the image b from the node n on
RECURSIVE wordsBelow(_, _)
RECURSIVE wordsBelowEdges(_, _, _)
wordsBelowEdges(b, edges, upTo) ==
    IF upTo = 0 THEN 0
    ELSE wordsBelowEdges(b, edges, upTo - 1) + wordsBelow(b, edges[upTo].node)

wordsBelow(b, n) ==
    LET below(nr) == (IF nr.final THEN 1 ELSE 0) + wordsBelowEdges(b, nr.edges, Len(nr.edges))
    IN  below(getNode(b, n))

\* the counts the cache of calculateSkipped holds for the targets of the
\* first upTo edges of a names list
RECURSIVE cachedBelow(_, _, _)
cachedBelow(cache, edges, upTo) ==
    IF upTo = 0 THEN 0
    ELSE cachedBelow(cache, edges, upTo - 1) + cache[edges[upTo].node]

\* c is what calculateSkipped returns from the root: every node's cached
\* count is its final bit plus its children's counts, and the count set
\* on its j-th edge is its final bit plus the counts of the children
\* before
CountsOfSkipped(c, nodes) ==
    \A n \in nodes :
        /\ n \in DOMAIN c.cache
        /\ c.cache[n] = (IF isFinal(c.d, n) THEN 1 ELSE 0)
                        + cachedBelow(c.cache, namesOf(c.d, n), Len(namesOf(c.d, n)))
        /\ \A j \in 1..Len(namesOf(c.d, n)) :
              c.d.edges[edgeStart(n, namesOf(c.d, n)[j].ch)].count =
                  (IF isFinal(c.d, n) THEN 1 ELSE 0)
                  + cachedBelow(c.cache, namesOf(c.d, n), j - 1)

\* the skip the image b holds for every edge of a node record
SkipsOfRecord(b, nr) ==
    \A j \in 1..Len(nr.edges) :
        /\ nr.edges[j].count = (IF nr.final THEN 1 ELSE 0) + wordsBelowEdges(b, nr.edges, j - 1)
        /\ j > 1 => nr.edges[j - 1].count <= nr.edges[j].count

\* the sum of the skips of the image b along the path of word from letter
\* k on, starting at node n; -1 when an edge is missing
RECURSIVE pathSkips(_, _, _, _)
pathSkips(b, n, word, k) ==
    IF k > Len(word) THEN 0
    ELSE LET follow(e) ==
                 IF ~e.ok THEN -1
                 ELSE e.edgeEnd.count + pathSkips(b, e.edgeEnd.node, word, k + 1)
         IN  follow(getEdge(b, edgeStart(n, word[k])))

\* C24: in the finished graph the count of a node is its final bit plus
\* the counts of its children and the count of the root is NumAdded; the
\* skip of the j-th edge of a node is its final bit plus the counts of the
\* children before, in the graph as in the image, and the skips along
\* the path of the i-th word sum to i.
C24_CountsAndSkips ==
    finder.finished =>
        /\ CountsOfSkipped(calculateSkipped(FinishedGraph(added), EmptyMap, rootNode),
                           graphNodes(FinishedGraph(added), {rootNode}, {}))
        /\ calculateSkipped(FinishedGraph(added), EmptyMap, rootNode).count = finder.numAdded
        /\ wordsBelow(finder, rootNode) = finder.numAdded
        /\ \A n \in imageNodes(finder, {rootNode}, {}) : SkipsOfRecord(finder, getNode(finder, n))
        /\ \A i \in 1..Len(added) : pathSkips(finder, rootNode, added[i], 1) = i - 1

\* a final node with two edges whose second skip counts two words
C24_Witness ==
    /\ finder.finished /\ Len(added) = MaxWords
    /\ \E n \in imageNodes(finder, {rootNode}, {}) :
          /\ getNode(finder, n).final
          /\ Len(getNode(finder, n).edges) = 2
          /\ getNode(finder, n).edges[2].count = 2

\* the characters of a list of edges increase strictly
Increasing(edges) ==
    \A j \in 1..(Len(edges) - 1) : edges[j].ch < edges[j + 1].ch

\* getEdge on the image b finds an edge of the node record nr for the
\* character c exactly when the record has one, and returns its target
SearchFindsEdges(b, nr) ==
    \A c \in Chars :
        LET found(e) ==
                /\ e.ok <=> \E j \in 1..Len(nr.edges) : nr.edges[j].ch = c
                /\ e.ok => \E j \in 1..Len(nr.edges) :
                               /\ nr.edges[j].ch = c
                               /\ nr.edges[j].node = e.edgeEnd.node
        IN  found(getEdge(b, edgeStart(nr.node, c)))

\* C25: in every state of the Builder and in the image the edges of each
\* node are in strictly increasing order of their characters (words being
\* sequences of runes in the order of their code points), and the binary
\* search of getEdge finds the edge of a node for a character exactly
\* when the node has one.
C25_EdgesSortedByChar ==
    /\ \A node \in DOMAIN d.names : Increasing(d.names[node])
    /\ finder.finished =>
          \A n \in imageNodes(finder, {rootNode}, {}) :
              /\ Increasing(getNode(finder, n).edges)
              /\ SearchFindsEdges(finder, getNode(finder, n))

\* the image has a node with an edge for every character and one with an
\* edge for the last character alone
C25_Witness ==
    /\ finder.finished /\ Len(added) = MaxWords
    /\ \E n \in imageNodes(finder, {rootNode}, {}) :
          Len(getNode(finder, n).edges) = Cardinality(Chars)
    /\ \E n \in imageNodes(finder, {rootNode}, {}) :
          /\ Len(getNode(finder, n).edges) = 1
          /\ getNode(finder, n).edges[1].ch = 1

\* the values abits takes at the start of the iterations of the
\* address-width loop
RECURSIVE abitsSteps(_, _, _, _)
abitsSteps(g, cbits, wbits, abits) ==
    LET next(pos) ==
            IF BitsLen(pos) <= abits THEN <<abits>>
            ELSE <<abits>> \o abitsSteps(g, cbits, wbits, BitsLen(pos))
    IN  next(nodeAddress(g, g.numNodes, cbits, wbits, abits))

\* the graph Write serializes inside Finish, for a remap of renumber
RenumberedGraphs(words) ==
    {renumber(FinishCounted(AddAll(New, words, 1)), remap) :
        remap \in Remaps(FinishCounted(AddAll(New, words, 1)),
                         [n \in {rootNode} |-> rootNode])}

\* the loop over the graph g has taken the widths steps and stopped with
\* the last of them, in which the size of the image and the address of
\* every node fit
WidthFits(g, cbits, wbits, steps) ==
    /\ steps[1] = 1
    /\ \A k \in 1..(Len(steps) - 1) : steps[k] < steps[k + 1]
    /\ abitsLoop(g, cbits, wbits, 1) = steps[Len(steps)]
    /\ BitsLen(nodeAddress(g, g.numNodes, cbits, wbits, steps[Len(steps)])) <= steps[Len(steps)]
    /\ \A i \in 0..(g.numNodes - 1) :
          nodeAddress(g, i, cbits, wbits, steps[Len(steps)]) < Pow2(steps[Len(steps)])
    /\ \A e \in DOMAIN g.edges :
          ReadBits(Flush(WriteBits(newBitWriter,
                                   nodeAddress(g, g.edges[e].node, cbits, wbits,
                                               steps[Len(steps)]),
                                   steps[Len(steps)])).out,
                   newBitSeeker, steps[Len(steps)]).v
              = nodeAddress(g, g.edges[e].node, cbits, wbits, steps[Len(steps)])

\* C26: the address-width loop of Write stops for every finished graph:
\* abits starts at 1 and grows on every iteration that does not stop, and
\* when the loop stops the size of the image in bits, and so every node
\* address, fits in abits bits and is stored in the target field whole.
C26_AddressWidthLoop ==
    finder.finished =>
        \A g \in RenumberedGraphs(added) :
            /\ WidthFits(g, BitsLen(maxChar(g)), BitsLen(g.numAdded),
                         abitsSteps(g, BitsLen(maxChar(g)), BitsLen(g.numAdded), 1))
            /\ finder.abits = abitsLoop(g, BitsLen(maxChar(g)), BitsLen(g.numAdded), 1)

\* the loop has widened abits twice before it stopped
C26_Witness ==
    /\ finder.finished
    /\ \E g \in RenumberedGraphs(added) :
          Len(abitsSteps(g, BitsLen(maxChar(g)), BitsLen(g.numAdded), 1)) = 3

\* the bit after the record that begins at address a of the image b
recordEnd(b, a) ==
    LET after(h) ==
            Tell(h.r) + (IF h.numEdges > 0
                         THEN h.numEdges * (b.cbits + b.wbits + b.abits) - b.wbits ELSE 0)
    IN  after(readNodeHeader(b, a))

\* the edges of node i of the graph g in the order Write emits them
edgesOfNode(g, i) ==
    LET ofNode(e) == e.node = i
    IN  SelectSeq(getEdges(g), ofNode)

\* the image b of the graph g holds, at the address of the layout pass,
\* the record of node i: its final bit, its edges with their skips and
\* the addresses of their targets, and then the next record
RecordAtAddress(g, b, i, es, nr) ==
    /\ nr.final = isFinal(g, i)
    /\ Len(nr.edges) = Len(es)
    /\ \A j \in 1..Len(es) :
          /\ nr.edges[j].ch = es[j].ch
          /\ nr.edges[j].count = (IF j = 1 THEN (IF isFinal(g, i) THEN 1 ELSE 0)
                                  ELSE g.edges[es[j]].count)
          /\ nr.edges[j].node = nodeAddress(g, g.edges[es[j]].node, b.cbits, b.wbits, b.abits)
    /\ recordEnd(b, nodeAddress(g, i, b.cbits, b.wbits, b.abits))
           = nodeAddress(g, i + 1, b.cbits, b.wbits, b.abits)

\* w is the bit writer of Write before its Flush and b what Read returns
\* over the bytes written
LaidOut(g, b, w) ==
    /\ b.firstNodeOffset = nodeAddress(g, 0, b.cbits, b.wbits, b.abits)
    /\ \A i \in 0..(g.numNodes - 1) :
          RecordAtAddress(g, b, i, edgesOfNode(g, i),
                          getNode(b, nodeAddress(g, i, b.cbits, b.wbits, b.abits)))
    /\ RecordAtAddress(g, b, 0, edgesOfNode(g, 0), getNode(b, rootNode))
    /\ Len(w.out) * 8 + w.used = nodeAddress(g, g.numNodes, b.cbits, b.wbits, b.abits)

\* C27: in the image Write emits every node's record begins at the bit
\* address the layout pass computed for it: every stored target is the
\* address of the first bit of the target's record, the root's record
\* begins at the firstNodeOffset Read derives from the header, every
\* node, those without edges too, has one record, and the bits emitted
\* before the padding are pos.
C27_RecordsAtLayoutAddresses ==
    finder.finished =>
        \A g \in RenumberedGraphs(added) :
            LaidOut(g, Read(serialize(g).out, 0),
                    writeBody(g, BitsLen(maxChar(g)), BitsLen(g.numAdded),
                              abitsLoop(g, BitsLen(maxChar(g)), BitsLen(g.numAdded), 1)))

\* the node without edges is numbered before a node with edges in one
\* renumbering and last in another
C27_Witness ==
    /\ finder.finished /\ Len(added) = MaxWords
    /\ \E g \in RenumberedGraphs(added) :
          \E i \in 1..(g.numNodes - 2) : edgeCount(g, i) = 0
    /\ \E g \in RenumberedGraphs(added) : edgeCount(g, g.numNodes - 1) = 0

\* C28: for n up to 2^28 - 1 writeUnsigned emits the unsignedLength(n)
\* bytes, at most four, every byte but the last with its high bit set,
\* and readUnsigned over them returns n and consumes just them; for a
\* larger n the encoding fails and emits nothing.
C28_VarintRoundTrip ==
    op.name = "writeUnsigned" =>
        IF op.n <= 268435455
        THEN /\ op.result.panic = ""
             /\ Len(op.result.out) = op.result.length
             /\ op.result.length <= 4
             /\ \A k \in 1..Len(op.result.out) :
                   (op.result.out[k] >= 128) <=> (k < Len(op.result.out))
             /\ op.result.read.v = op.n
             /\ op.result.read.consumed = 8 * Len(op.result.out)
        ELSE op.result.panic # "" /\ op.result.out = <<>>

\* the unchecked stack of the builder b spells the word w from the root,
\* along edges that point to its children, none of them registered
StackSpells(b, w) ==
    /\ Len(b.uncheckedNodes) = Len(w)
    /\ \A k \in 1..Len(w) :
          /\ b.uncheckedNodes[k].ch = w[k]
          /\ b.uncheckedNodes[k].parent =
                 (IF k = 1 THEN rootNode ELSE b.uncheckedNodes[k - 1].child)
          /\ edgeStart(b.uncheckedNodes[k].parent, w[k]) \in DOMAIN b.edges
          /\ b.edges[edgeStart(b.uncheckedNodes[k].parent, w[k])].node
                 = b.uncheckedNodes[k].child
          /\ \A name \in DOMAIN b.minimizedNodes :
                b.minimizedNodes[name] # b.uncheckedNodes[k].child
    /\ isFinal(b, IF w = <<>> THEN rootNode ELSE b.uncheckedNodes[Len(w)].child)

\* C29: after every Add(w) that succeeds on an unfinished Builder the
\* unchecked stack has one entry for each character of w, entry k being
\* (parent, w[k], child) with the first parent the root and each next
\* parent the child before; the edge (parent, w[k]) points to the child,
\* the last child is final and no child is in the minimized-name index.
C29_UncheckedStackSpellsLastWord ==
    (op.name = "Add" /\ op.panic = "") =>
        /\ ~d.finished
        /\ d.lastWord = op.word
        /\ StackSpells(d, op.word)

\* the last of the Adds, of a word of full length that shares its first
\* letter with the word before, whose other nodes are registered
C29_Witness ==
    /\ op.name = "Add" /\ op.panic = "" /\ Len(op.word) = MaxLen
    /\ d.numAdded = MaxWords
    /\ Len(added[MaxWords - 1]) = MaxLen
    /\ added[MaxWords - 1][1] = op.word[1]
    /\ DOMAIN d.minimizedNodes # {}

\* the nodes registered in the minimized-name index of b
Registered(b) == {b.minimizedNodes[name] : name \in DOMAIN b.minimizedNodes}

\* every entry of the index of b is an entry of the index of c, and its
\* node has in c the final flag and the edges it has in b
Kept(b, c) ==
    \A name \in DOMAIN b.minimizedNodes :
        /\ name \in DOMAIN c.minimizedNodes
        /\ c.minimizedNodes[name] = b.minimizedNodes[name]
        /\ namesOf(c, b.minimizedNodes[name]) = namesOf(b, b.minimizedNodes[name])
        /\ isFinal(c, b.minimizedNodes[name]) = isFinal(b, b.minimizedNodes[name])

\* the nodes of b that differ in c are not registered in b and are on its
\* unchecked stack: the root, from which the stack starts, or the child
\* of an entry
OnlyUncheckedTouched(b, c) ==
    \A n \in 0..(b.nextID - 1) :
        (namesOf(c, n) # namesOf(b, n) \/ isFinal(c, n) # isFinal(b, n)) =>
            /\ n \notin Registered(b)
            /\ \/ n = rootNode
               \/ \E k \in 1..Len(b.uncheckedNodes) : b.uncheckedNodes[k].child = n

\* the index of the builder b holds the names its nodes have now, its
\* nodes are reached from the root, and the minimize(0) of Finish keeps
\* them
IndexCurrent(b, nodes) ==
    /\ \A name \in DOMAIN b.minimizedNodes :
          /\ nameOf(b, b.minimizedNodes[name]) = name
          /\ b.minimizedNodes[name] \in nodes
    /\ Kept(b, minimize(b, 0))
    /\ OnlyUncheckedTouched(b, minimize(b, 0))

\* a step that leaves the Builder unfinished keeps the registered nodes
RegisteredKept == ~d'.finished => Kept(d, d') /\ OnlyUncheckedTouched(d, d')

\* C30: a node registered in the minimized-name index keeps its final
\* flag and its edges and is not deleted by a later Add, minimize or
\* replaceChild: in every state of the Builder each entry of the index
\* maps the name its node has now to that node, every registered node is
\* reached from the root, and the nodes that change or go are
\* unregistered nodes on the unchecked stack.
C30_RegisteredNodesFrozen ==
    /\ [](~d.finished => IndexCurrent(d, graphNodes(d, {rootNode}, {})))
    /\ [][RegisteredKept]_vars

\* a registered node has taken the place of the child of a later word,
\* and the index holds a node with an edge
C30_Witness ==
    /\ ~d.finished /\ d.numAdded = MaxWords
    /\ Cardinality(DOMAIN d.minimizedNodes) >= 2
    /\ d.nextID - 1 > Cardinality(graphNodes(d, {rootNode}, {})) - 1
    /\ \E name \in DOMAIN d.minimizedNodes : Len(namesOf(d, d.minimizedNodes[name])) > 0

\* what a query returns when it runs alone
Alone(b, th) ==
    CASE th.query = "IndexOf" -> IndexOf(b, th.arg)
      [] th.query = "FindAllPrefixesOf" -> FindAllPrefixesOf(b, th.arg)
      [] th.query = "AtIndex" -> AtIndex(b, th.arg)
      [] th.query = "Enumerate" -> Enumerate(b, th.arg)

\* every query that returned has returned what it returns alone
ResultsAsAlone ==
    \A t \in Threads :
        running[t].pc = "done" => running[t].result = Alone(finder, running[t])

\* a step of a query writes no field of the Finder
QueryStepKeepsFinder ==
    (\E t \in Threads : running'[t].pc # running[t].pc) => finder' = finder

\* C20: queries that run at the same time on one Finder return, under
\* every interleaving of their reads, what they return alone, and no
\* step of a query writes a field of the Finder.
C20_ConcurrentQueries == []ResultsAsAlone /\ [][QueryStepKeepsFinder]_vars

\* over a graph of two words Enumerate has returned its visits to one
\* goroutine while AtIndex, called by the other, is inside a call of
\* getNode below the root, between the read of the header and the read
\* of the edge records
C20_Witness ==
    /\ Len(added) = MaxQueriedWords
    /\ running[1].pc = "done" /\ running[1].query = "Enumerate"
    /\ Len(running[1].result) > MaxQueriedWords
    /\ running[2].pc = "body" /\ running[2].query = "AtIndex"
    /\ running[2].stack # <<>>
    /\ seekers[1].p > 0 /\ seekers[2].p > 0

\* the sum of the widths of the calls before position i
RECURSIVE widthSum(_, _)
widthSum(calls, i) == IF i = 0 THEN 0 ELSE widthSum(calls, i - 1) + calls[i].n

\* the calls of WriteBits before the Flush that is the last call, when
\* the writer was flushed once
WritesBeforeFlush == SubSeq(wroteBits, 1, Len(wroteBits) - 1)

FlushedOnce ==
    /\ wroteBits # <<>>
    /\ wroteBits[Len(wroteBits)].call = "Flush"
    /\ \A i \in 1..(Len(wroteBits) - 1) : wroteBits[i].call = "WriteBits"

\* C21: WriteBits of values and widths and then Flush emit ceil(sum/8)
\* bytes, the last padded with zero bits, and ReadBits of the same widths
\* from offset 0 returns each value modulo 2^width, with the reader that
\* fetches bytes and with the one that caches 64-bit words; 0x2a and 0x15
\* in 6 bits each give 0xa9 0x50.
C21_BitsRoundTrip ==
    FlushedOnce =>
        /\ Len(bw.out) = (widthSum(WritesBeforeFlush, Len(WritesBeforeFlush)) + 7) \div 8
        /\ bw.out # <<>> =>
              bw.out[Len(bw.out)]
                 % Pow2(8 * Len(bw.out) - widthSum(WritesBeforeFlush, Len(WritesBeforeFlush))) = 0
        /\ readBack(bw.out, newBitSeeker, WritesBeforeFlush, 1)
              = [i \in 1..Len(WritesBeforeFlush) |->
                    WritesBeforeFlush[i].value % Pow2(WritesBeforeFlush[i].n)]
        /\ readBackWord(bw.out, newWordSeeker, WritesBeforeFlush, 1)
              = [i \in 1..Len(WritesBeforeFlush) |->
                    WritesBeforeFlush[i].value % Pow2(WritesBeforeFlush[i].n)]
        /\ (Len(WritesBeforeFlush) = 2
            /\ WritesBeforeFlush[1].value = 42 /\ WritesBeforeFlush[1].n = 6
            /\ WritesBeforeFlush[2].value = 21 /\ WritesBeforeFlush[2].n = 6)
               => bw.out = <<169, 80>>

\* three values of 30, 30 and 9 bits were written and flushed: the third
\* crosses the end of the first 64-bit word
C21_Witness ==
    /\ FlushedOnce /\ Len(WritesBeforeFlush) = 3
    /\ WritesBeforeFlush[1] = [call |-> "WriteBits", value |-> 715827882, n |-> 30]
    /\ WritesBeforeFlush[2] = [call |-> "WriteBits", value |-> 1789569706, n |-> 30]
    /\ WritesBeforeFlush[3] = [call |-> "WriteBits", value |-> 42, n |-> 9]
    /\ Len(bw.out) = 9

\* C22: the tables CreateMinimalPerfectHash returns hold a permutation
\* of the items, and the two-level lookup of every item yields the slot
\* that holds it; for no item the tables are empty.
C22_MinimalPerfectHash ==
    (op.name = "CreateMinimalPerfectHash" /\ op.tables.found) =>
        /\ DOMAIN op.tables.G = 0..(op.size - 1)
        /\ DOMAIN op.tables.values = 0..(op.size - 1)
        /\ \A i \in 0..(op.size - 1) :
              /\ \E s \in 0..(op.size - 1) : op.tables.values[s] = i
              /\ op.tables.values[mphSlot(op.size, op.hash, op.tables.G, i)] = i

\* three items, two of which share a bucket that the first variant does
\* not place, the third taking a free slot
C22_Witness ==
    /\ op.name = "CreateMinimalPerfectHash" /\ op.size = MaxItems /\ op.tables.found
    /\ \E s \in 0..(op.size - 1) : op.tables.G[s] > 1
    /\ \E s \in 0..(op.size - 1) : op.tables.G[s] < 0

\* building alone, with Write and Read
NextBuild == DoAdd \/ DoFinish \/ DoWrite \/ DoRead

SpecBuild == Init /\ [][NextBuild]_vars

\* building and one kind of query
NextIndexOf == DoAdd \/ DoFinish \/ DoIndexOf

SpecIndexOf == Init /\ [][NextIndexOf]_vars

NextPrefixes == DoAdd \/ DoFinish \/ DoFindAllPrefixesOf

SpecPrefixes == Init /\ [][NextPrefixes]_vars

NextAtIndex == DoAdd \/ DoFinish \/ DoAtIndex

SpecAtIndex == Init /\ [][NextAtIndex]_vars

NextEnumerate == DoAdd \/ DoFinish \/ DoEnumerate

SpecEnumerate == Init /\ [][NextEnumerate]_vars

\* building, Write, and Read of the image inside a larger source
NextReadAt == DoAdd \/ DoFinish \/ DoWrite \/ DoReadAt

SpecReadAt == Init /\ [][NextReadAt]_vars

\* building, with the queries called on the Builder before Finish
NextBuilderQuery ==
    \/ DoAdd
    \/ DoFinish
    \/ DoBuilderIndexOf
    \/ DoBuilderFindAllPrefixesOf
    \/ DoBuilderAtIndex
    \/ DoBuilderEnumerate

SpecBuilderQuery == Init /\ [][NextBuilderQuery]_vars

\* building, Write, Read, and Close of either Finder
NextClose == DoAdd \/ DoFinish \/ DoWrite \/ DoRead \/ DoClose

SpecClose == Init /\ [][NextClose]_vars

\* building, Write, and Read of a cut image
NextTruncated == DoAdd \/ DoFinish \/ DoWrite \/ DoReadTruncated

SpecTruncated == Init /\ [][NextTruncated]_vars

\* building and FindByPrefix
NextFindByPrefix == DoAdd \/ DoFinish \/ DoFindByPrefix

SpecFindByPrefix == Init /\ [][NextFindByPrefix]_vars

\* queries that run at the same time on the Finder of a finished Builder
NextConcurrent == DoBuild \/ DoStartQuery \/ DoReadHeader \/ DoReadEdges

SpecConcurrent == Init /\ [][NextConcurrent]_vars

\* a bitWriter alone
NextBits == DoWriteBits \/ DoFlush

SpecBits == Init /\ [][NextBits]_vars

\* the hash tables alone
NextMph == DoCreateMinimalPerfectHash

SpecMph == Init /\ [][NextMph]_vars

\* the varint codec alone
NextVarint == DoWriteUnsigned

SpecVarint == Init /\ [][NextVarint]_vars

\* every operation
Next ==
    \/ DoAdd
    \/ DoFinish
    \/ DoIndexOf
    \/ DoFindAllPrefixesOf
    \/ DoAtIndex
    \/ DoEnumerate
    \/ DoWrite
    \/ DoRead
    \/ DoReadAt
    \/ DoBuilderIndexOf
    \/ DoBuilderFindAllPrefixesOf
    \/ DoBuilderAtIndex
    \/ DoBuilderEnumerate
    \/ DoClose
    \/ DoReadTruncated
    \/ DoFindByPrefix
    \/ DoBuild
    \/ DoStartQuery
    \/ DoReadHeader
    \/ DoReadEdges
    \/ DoWriteBits
    \/ DoFlush
    \/ DoCreateMinimalPerfectHash
    \/ DoWriteUnsigned

Spec == Init /\ [][Next]_vars
====
